---- MODULE Spec2Model ----
(***************************************************************************)
(* Host writer / guest reader rendezvous over one ivshmem region.          *)
(*                                                                         *)
(* The two peers are independent single-threaded processes; every          *)
(* statement that loads or stores the shared region is one step, and the   *)
(* steps of the two peers interleave freely.  Time is abstracted: a timed  *)
(* wait ends by timeout either because the counterparty can make no step   *)
(* of its own (it is polling for something that is not there, or it has    *)
(* exited), or because the counterparty was delayed beyond the bound,      *)
(* which is counted in `stalls'.  Memory-allocation failure in the guest   *)
(* is counted in `faults'.                                                 *)
(***************************************************************************)
EXTENDS Integers, Sequences, FiniteSets, TLC

VARIABLES
    shm,       \* struct shared_data: the mapped region
    host,      \* locals of host_writer (position, loop counters, test frame)
    guest,     \* locals of guest_reader (position, message_count, loaded header)
    records,   \* rows the host wrote to its CSV file, in order
    cfg,       \* command lines of both programs and the region found at start
    stored,    \* history: <<peer, field, stored value is zero>> of every store
    published, \* history: headers in the region when the host published SENDING
    stalls,    \* history: the delays beyond a timing bound, by the wait they hit
    faults     \* history: failed allocations in the guest

vars == <<shm, host, guest, records, cfg, stored, published, stalls, faults>>

----------------------------------------------------------------------------
(* Bounds of the model *)

MaxIter == 1        \* largest -l / -b count given to host_writer
MaxExpected == 4    \* largest expected_count given to guest_reader
MaxStalls == 1      \* delays beyond a timing bound in one run
MaxFaults == 1      \* failed malloc calls in one run
MaxDur == 1         \* largest measured duration of the guest memcpy phase
MaxRoundtrip == 9   \* largest round-trip time the host measures

----------------------------------------------------------------------------
(* common.h *)

\* 0xDEADBEEF, read as a signed 32-bit word
MAGIC == -559038737

HOST_STATE_UNINITIALIZED == 0
HOST_STATE_INITIALIZING == 1
HOST_STATE_READY == 2
HOST_STATE_SENDING == 3
HOST_STATE_COMPLETED == 4

GUEST_STATE_UNINITIALIZED == 0
GUEST_STATE_WAITING_HOST_INIT == 1
GUEST_STATE_READY == 2
GUEST_STATE_PROCESSING == 3
GUEST_STATE_ACKNOWLEDGED == 4

\* struct timing_data: the durations the guest reports, and guest_perf
TimingFields ==
    {"guest_copy_duration", "guest_verify_duration", "guest_total_duration",
     "guest_hot_cache_duration", "guest_cold_cache_duration",
     "guest_second_pass_duration", "guest_cached_verify_duration", "guest_perf"}

\* struct shared_data
Fields ==
    {"magic", "test_complete", "host_state", "guest_state", "sequence",
     "data_size", "data_sha256", "error_code", "timing", "buffer"}

\* memset(&shm->timing, 0, sizeof(struct timing_data))
ZeroTiming == [f \in TimingFields |-> 0]

\* 32 zero bytes in data_sha256
ZeroHash == <<"raw", 0, <<"frame", 0>>>>

\* the value a field holds when all its bytes are zero
ZeroOf(f) ==
    CASE f = "timing" -> ZeroTiming
      [] f = "data_sha256" -> ZeroHash
      [] f = "buffer" -> <<"frame", 0>>
      [] OTHER -> 0

----------------------------------------------------------------------------
(* host_writer.c, guest_reader.c: helpers *)

SHMEM_SIZE == 64 * 1024 * 1024

\* offsetof(struct shared_data, buffer): 60 bytes of header words and hash,
\* padded to 64, 168 bytes of timing_data, aligned up to 64
header_size == 256

\* SHMEM_SIZE - header_size, for the SHMEM_SIZE the host was built with
max_data_size == cfg.shmem_size - header_size

\* test_frames[] of test_bandwidth: width * height * bpp
test_frames == <<1920 * 1080 * 3, 2560 * 1440 * 3, 3840 * 2160 * 3>>

\* the 4K frame of test_latency
latency_frame_size == 3840 * 2160 * 3

\* first sequence number of a bandwidth message
BandwidthSequenceBase == 65535

\* SHA256 over the first `size' bytes of a buffer holding `data': distinct
\* inputs give distinct digests, and no digest is 32 zero bytes
calculate_sha256(data, size) ==
    IF size = 0 THEN <<"sha256", 0, <<"frame", 0>>>> ELSE <<"sha256", size, data>>

\* the random bytes of the test frame of a suite: a fresh buffer per suite
\* and per frame type
generate_random_frame(suite, frame_idx) ==
    IF suite = "latency" THEN <<"frame", 10>> ELSE <<"frame", 10 + frame_idx>>

\* the payload area while memcpy is half-way from `old' to `new'
PartialCopy(old, new) ==
    IF old = new THEN new ELSE <<"torn", old, new>>

----------------------------------------------------------------------------
(* Stores to the region, with their history *)

\* store upd[f] into every field f of DOMAIN upd, as `peer'
Store(peer, upd) ==
    /\ shm' = [f \in Fields |-> IF f \in DOMAIN upd THEN upd[f] ELSE shm[f]]
    /\ stored' = stored \cup {<<peer, f, upd[f] = ZeroOf(f)>> : f \in DOMAIN upd}

NoStore == UNCHANGED <<shm, stored>>

\* set_host_state: stores only when the state changes
set_host_state(new_state) ==
    IF shm.host_state # new_state
    THEN Store("host", "host_state" :> new_state)
    ELSE NoStore

\* set_guest_state: stores only when the state changes
set_guest_state(new_state) ==
    IF shm.guest_state # new_state
    THEN Store("guest", "guest_state" :> new_state)
    ELSE NoStore

----------------------------------------------------------------------------
(* The region a run finds, and the command lines *)

\* a word with all bits set (0xFF bytes), read as a signed word
AllOnes == 0 - 1

\* the region before any peer runs: zero-filled by setup.sh, left behind by a
\* run in which both peers exited cleanly, left behind by a run whose host was
\* interrupted at its "Press Enter to start tests" prompt, or filled with 0xFF
\* bytes
InitialRegion(kind) ==
    CASE kind = "zero" -> [f \in Fields |-> ZeroOf(f)]
      [] kind = "clean_exit" ->
            [magic |-> MAGIC, test_complete |-> 1,
             host_state |-> HOST_STATE_COMPLETED,
             guest_state |-> GUEST_STATE_READY,
             sequence |-> 0, data_size |-> latency_frame_size,
             data_sha256 |-> calculate_sha256(<<"frame", 9>>, latency_frame_size),
             error_code |-> 0,
             timing |-> [f \in TimingFields |-> 1],
             buffer |-> <<"frame", 9>>]
      [] kind = "interrupted" ->
            [magic |-> MAGIC, test_complete |-> 0,
             host_state |-> HOST_STATE_READY,
             guest_state |-> GUEST_STATE_READY,
             sequence |-> 0, data_size |-> 0, data_sha256 |-> ZeroHash,
             error_code |-> 0, timing |-> ZeroTiming,
             buffer |-> <<"frame", 9>>]
      [] OTHER ->
            [magic |-> AllOnes, test_complete |-> AllOnes,
             host_state |-> AllOnes, guest_state |-> AllOnes,
             sequence |-> AllOnes, data_size |-> AllOnes,
             data_sha256 |-> <<"raw", AllOnes, <<"frame", AllOnes>>>>,
             error_code |-> AllOnes,
             timing |-> [f \in TimingFields |-> AllOnes],
             buffer |-> <<"frame", AllOnes>>]

RegionKinds == {"zero", "clean_exit", "interrupted", "all_ones"}

\* values of SHMEM_SIZE: the 64 MB of the sources, and regions whose payload
\* capacity is exactly the 1440p frame, one byte less than it, and exactly the
\* 4K frame
ShmemSizes ==
    {SHMEM_SIZE, header_size + test_frames[2], header_size + test_frames[2] - 1,
     header_size + latency_frame_size}

\* main of host_writer: -l [COUNT], -b [COUNT]; both tests when neither is given
\* main of guest_reader: expected_count
Configurations ==
    [run_latency : BOOLEAN, run_bandwidth : BOOLEAN,
     latency_count : 1..MaxIter, bandwidth_count : 1..MaxIter,
     expected_count : 1..MaxExpected, region : RegionKinds,
     shmem_size : ShmemSizes]

\* what the guest last read of the host's words in the poll that ended a
\* wait: nothing, before its first wait ends
NothingSeen == [magic |-> 0, host_state |-> HOST_STATE_UNINITIALIZED,
                test_complete |-> 0]

\* the loads of a wait's condition in the poll that ends it; the waits of the
\* message loop do not load magic and keep the handshake's
Observation == [magic |-> shm.magic, host_state |-> shm.host_state,
                test_complete |-> shm.test_complete]

\* the option parsing of main: a count is kept only for a suite that runs
ValidOptions(c) ==
    /\ c.run_latency \/ c.run_bandwidth
    /\ (~c.run_latency => c.latency_count = 1)
    /\ (~c.run_bandwidth => c.bandwidth_count = 1)

\* both programs before they start, over the region they find
Start ==
    /\ shm = InitialRegion(cfg.region)
    /\ host = [pc |-> "off", suite |-> "none", i |-> 0, frame_idx |-> 0,
               frame_size |-> 0, test_frame |-> <<"frame", 0>>,
               expected_hash |-> ZeroHash, guest_timing |-> ZeroTiming,
               roundtrip_time |-> 0, notification_est |-> 0,
               guest_ready |-> "not_waited", publications |-> 0]
    /\ guest = [pc |-> "off", message_count |-> 0, sequence |-> 0,
                data_size |-> 0, expected_hash |-> ZeroHash,
                measurement_buffer |-> <<"frame", 0>>,
                timing |-> ZeroTiming, error_code |-> 0, exit_status |-> 0,
                seen |-> NothingSeen, wrote |-> {}]
    /\ records = <<>>
    /\ stored = {}
    /\ published = {}
    /\ stalls = <<>>
    /\ faults = 0

\* the programs as built from the sources, over any of the regions
Init ==
    /\ cfg \in {c \in Configurations :
                  ValidOptions(c) /\ c.shmem_size = SHMEM_SIZE}
    /\ Start

\* the programs built for any of the region sizes, over a zero-filled region,
\* the guest asked to serve every message
CapacityInit ==
    /\ cfg \in {c \in Configurations :
                  /\ ValidOptions(c)
                  /\ c.region = "zero"
                  /\ c.expected_count = MaxExpected}
    /\ Start

----------------------------------------------------------------------------
(* Timed waits *)

\* wait_for_guest_state: the guest state each host wait polls for
HostWaits ==
    [init_wait_guest |-> GUEST_STATE_READY,
     iter_wait_processing |-> GUEST_STATE_PROCESSING,
     iter_wait_acknowledged |-> GUEST_STATE_ACKNOWLEDGED,
     iter_wait_ready |-> GUEST_STATE_READY]

\* the condition that ends the handshake loop of initialize_guest_communication
HandshakeDone == shm.magic = MAGIC /\ shm.host_state = HOST_STATE_READY

\* a variant of SendingSeen that waits for the host to leave READY
SendingSeen_LeftReady ==
    ~(shm.host_state = HOST_STATE_READY /\ shm.test_complete = 0)

\* the condition that ends the wait for a message in monitor_latency
SendingSeen == ~(shm.host_state # HOST_STATE_SENDING /\ shm.test_complete = 0)

\* a variant of HostReadySeen that waits for the host to leave SENDING
HostReadySeen_LeftSending ==
    ~(shm.host_state = HOST_STATE_SENDING /\ shm.test_complete = 0)

\* the condition that ends the wait for the host to finish with a message
HostReadySeen == ~(shm.host_state # HOST_STATE_READY /\ shm.test_complete = 0)

\* the host has exited, or polls for a guest state that is not there
HostBlocked ==
    \/ host.pc = "done"
    \/ host.pc \in DOMAIN HostWaits /\ shm.guest_state # HostWaits[host.pc]

\* the guest has exited or was stopped, or polls for something that is not
\* there
GuestBlocked ==
    \/ guest.pc = "exited"
    \/ guest.pc = "stopped"
    \/ guest.pc = "handshake" /\ ~HandshakeDone
    \/ guest.pc = "wait_sending" /\ ~SendingSeen
    \/ guest.pc = "wait_host_ready" /\ ~HostReadySeen

\* a variant of TimeoutFires in which a wait times out only on a delay of the
\* counterparty, and not when the counterparty takes no step at all
TimeoutFires_OnlyOnDelay(peerBlocked, wait) ==
    Len(stalls) < MaxStalls /\ stalls' = Append(stalls, wait)

\* a timeout fires when the counterparty is blocked, or after a delay of the
\* counterparty beyond the bound
TimeoutFires(peerBlocked, wait) ==
    IF peerBlocked
    THEN UNCHANGED stalls
    ELSE Len(stalls) < MaxStalls /\ stalls' = Append(stalls, wait)

----------------------------------------------------------------------------
(* host_writer.c: init_shared_memory and main *)

HostGoto(pc) == host' = [host EXCEPT !.pc = pc]

\* main up to init_shared_memory, and its look at the guest state
HostStart ==
    /\ host.pc = "off"
    /\ HostGoto("init_clear_magic")
    /\ UNCHANGED <<shm, stored, guest, records, cfg, published, stalls, faults>>

\* shm->magic = 0
InitClearMagic ==
    /\ host.pc = "init_clear_magic"
    /\ Store("host", "magic" :> 0)
    /\ HostGoto("init_set_initializing")
    /\ UNCHANGED <<guest, records, cfg, published, stalls, faults>>

\* set_host_state(shm, HOST_STATE_INITIALIZING)
InitSetInitializing ==
    /\ host.pc = "init_set_initializing"
    /\ set_host_state(HOST_STATE_INITIALIZING)
    /\ HostGoto("init_zero_header")
    /\ UNCHANGED <<guest, records, cfg, published, stalls, faults>>

\* a variant of InitZeroHeader that leaves test_complete as it finds it
InitZeroHeader_KeepsTestComplete ==
    /\ host.pc = "init_zero_header"
    /\ Store("host", [f \in {"sequence", "data_size", "error_code",
                             "data_sha256", "timing"}
                        |-> ZeroOf(f)])
    /\ HostGoto("init_set_magic")
    /\ UNCHANGED <<guest, records, cfg, published, stalls, faults>>

\* a variant of InitZeroHeader that clears guest_state as well
InitZeroHeader_ClearsGuestState ==
    /\ host.pc = "init_zero_header"
    /\ Store("host", [f \in {"sequence", "data_size", "error_code",
                             "test_complete", "data_sha256", "timing",
                             "guest_state"}
                        |-> ZeroOf(f)])
    /\ HostGoto("init_set_magic")
    /\ UNCHANGED <<guest, records, cfg, published, stalls, faults>>

\* sequence, data_size, error_code, test_complete, data_sha256, timing = 0
InitZeroHeader ==
    /\ host.pc = "init_zero_header"
    /\ Store("host", [f \in {"sequence", "data_size", "error_code",
                             "test_complete", "data_sha256", "timing"}
                        |-> ZeroOf(f)])
    /\ HostGoto("init_set_magic")
    /\ UNCHANGED <<guest, records, cfg, published, stalls, faults>>

\* a variant of InitSetMagic that leaves the magic word cleared
InitSetMagic_StaysZero ==
    /\ host.pc = "init_set_magic"
    /\ Store("host", "magic" :> 0)
    /\ HostGoto("init_set_ready")
    /\ UNCHANGED <<guest, records, cfg, published, stalls, faults>>

\* a variant of InitSetMagic that goes on to READY without the store of magic
InitSetMagic_Skipped ==
    /\ host.pc = "init_set_magic"
    /\ NoStore
    /\ HostGoto("init_set_ready")
    /\ UNCHANGED <<guest, records, cfg, published, stalls, faults>>

\* shm->magic = MAGIC
InitSetMagic ==
    /\ host.pc = "init_set_magic"
    /\ Store("host", "magic" :> MAGIC)
    /\ HostGoto("init_set_ready")
    /\ UNCHANGED <<guest, records, cfg, published, stalls, faults>>

\* a variant of InitSetReady that returns without waiting for the guest
InitSetReady_SkipsWait ==
    /\ host.pc = "init_set_ready"
    /\ set_host_state(HOST_STATE_READY)
    /\ HostGoto("press_enter")
    /\ UNCHANGED <<guest, records, cfg, published, stalls, faults>>

\* set_host_state(shm, HOST_STATE_READY)
InitSetReady ==
    /\ host.pc = "init_set_ready"
    /\ set_host_state(HOST_STATE_READY)
    /\ HostGoto("init_wait_guest")
    /\ UNCHANGED <<guest, records, cfg, published, stalls, faults>>

\* wait_for_guest_state(shm, GUEST_STATE_READY, 10 s) returns true
InitWaitGuestReady ==
    /\ host.pc = "init_wait_guest"
    /\ shm.guest_state = HostWaits[host.pc]
    /\ host' = [host EXCEPT !.pc = "press_enter", !.guest_ready = "ready"]
    /\ UNCHANGED <<shm, stored, guest, records, cfg, published, stalls, faults>>

\* ... returns false: "Proceeding anyway..."
InitWaitGuestTimeout ==
    /\ host.pc = "init_wait_guest"
    /\ shm.guest_state # HostWaits[host.pc]
    /\ TimeoutFires(GuestBlocked, host.pc)
    /\ host' = [host EXCEPT !.pc = "press_enter", !.guest_ready = "timeout"]
    /\ UNCHANGED <<shm, stored, guest, records, cfg, published, faults>>

\* getchar() returns; main calls test_latency or test_bandwidth
PressEnter ==
    /\ host.pc = "press_enter"
    /\ host' = IF cfg.run_latency
               THEN [host EXCEPT !.pc = "latency_begin"]
               ELSE [host EXCEPT !.pc = "bandwidth_frame", !.frame_idx = 1]
    /\ UNCHANGED <<shm, stored, guest, records, cfg, published, stalls, faults>>

\* where main goes when test_latency returns
AfterLatency(h) ==
    IF cfg.run_bandwidth
    THEN [h EXCEPT !.pc = "press_enter_bandwidth"]
    ELSE [h EXCEPT !.pc = "shutdown_completed"]

\* test_latency up to its loop: the 4K frame, checked against the capacity,
\* generated once with its SHA256
LatencyBegin ==
    /\ host.pc = "latency_begin"
    /\ host' = IF latency_frame_size > max_data_size
               THEN AfterLatency(host)
               ELSE [host EXCEPT
                        !.pc = "iter_clear_timing", !.suite = "latency", !.i = 0,
                        !.frame_size = latency_frame_size,
                        !.test_frame = generate_random_frame("latency", 0),
                        !.expected_hash =
                            calculate_sha256(generate_random_frame("latency", 0),
                                             latency_frame_size)]
    /\ UNCHANGED <<shm, stored, guest, records, cfg, published, stalls, faults>>

\* the second getchar() of main, before test_bandwidth
PressEnterBandwidth ==
    /\ host.pc = "press_enter_bandwidth"
    /\ host' = [host EXCEPT !.pc = "bandwidth_frame", !.frame_idx = 1]
    /\ UNCHANGED <<shm, stored, guest, records, cfg, published, stalls, faults>>

\* a variant of BandwidthFrame that also skips a frame of exactly the capacity
BandwidthFrame_SkipsEqual ==
    /\ host.pc = "bandwidth_frame"
    /\ host' =
         IF host.frame_idx > Len(test_frames)
         THEN [host EXCEPT !.pc = "shutdown_completed"]
         ELSE IF test_frames[host.frame_idx] >= max_data_size
         THEN [host EXCEPT !.frame_idx = host.frame_idx + 1]
         ELSE [host EXCEPT
                  !.pc = "iter_clear_timing", !.suite = "bandwidth", !.i = 0,
                  !.frame_size = test_frames[host.frame_idx],
                  !.test_frame = generate_random_frame("bandwidth", host.frame_idx),
                  !.expected_hash =
                      calculate_sha256(
                          generate_random_frame("bandwidth", host.frame_idx),
                          test_frames[host.frame_idx])]
    /\ UNCHANGED <<shm, stored, guest, records, cfg, published, stalls, faults>>

\* the frame loop of test_bandwidth: the end of the table, a frame that is too
\* large (skipped), or a frame generated with its SHA256
BandwidthFrame ==
    /\ host.pc = "bandwidth_frame"
    /\ host' =
         IF host.frame_idx > Len(test_frames)
         THEN [host EXCEPT !.pc = "shutdown_completed"]
         ELSE IF test_frames[host.frame_idx] > max_data_size
         THEN [host EXCEPT !.frame_idx = host.frame_idx + 1]
         ELSE [host EXCEPT
                  !.pc = "iter_clear_timing", !.suite = "bandwidth", !.i = 0,
                  !.frame_size = test_frames[host.frame_idx],
                  !.test_frame = generate_random_frame("bandwidth", host.frame_idx),
                  !.expected_hash =
                      calculate_sha256(
                          generate_random_frame("bandwidth", host.frame_idx),
                          test_frames[host.frame_idx])]
    /\ UNCHANGED <<shm, stored, guest, records, cfg, published, stalls, faults>>

\* set_host_state(shm, HOST_STATE_COMPLETED)
ShutdownCompleted ==
    /\ host.pc = "shutdown_completed"
    /\ set_host_state(HOST_STATE_COMPLETED)
    /\ HostGoto("shutdown_test_complete")
    /\ UNCHANGED <<guest, records, cfg, published, stalls, faults>>

\* a variant of ShutdownTestComplete that leaves test_complete cleared
ShutdownTestComplete_StoresZero ==
    /\ host.pc = "shutdown_test_complete"
    /\ Store("host", "test_complete" :> 0)
    /\ HostGoto("done")
    /\ UNCHANGED <<guest, records, cfg, published, stalls, faults>>

\* shm->test_complete = 1; munmap; return 0
ShutdownTestComplete ==
    /\ host.pc = "shutdown_test_complete"
    /\ Store("host", "test_complete" :> 1)
    /\ HostGoto("done")
    /\ UNCHANGED <<guest, records, cfg, published, stalls, faults>>

----------------------------------------------------------------------------
(* host_writer.c: one iteration of test_latency (for i) and of              *)
(* test_bandwidth (for iter); the two loop bodies are the same statements   *)

\* the next iteration, or the end of the loop: `continue' and the end of the
\* loop body both come here; roundtrip_time and notification_est are locals of
\* the loop body
NextIteration(h) ==
    LET iterations == IF h.suite = "latency" THEN cfg.latency_count
                      ELSE cfg.bandwidth_count
        g == [h EXCEPT !.roundtrip_time = 0, !.notification_est = 0]
    IN  IF h.i + 1 < iterations
        THEN [g EXCEPT !.pc = "iter_clear_timing", !.i = h.i + 1]
        ELSE IF h.suite = "latency"
        THEN AfterLatency(g)
        ELSE [g EXCEPT !.pc = "bandwidth_frame", !.frame_idx = h.frame_idx + 1]

\* shm->sequence = i (latency), 0xFFFF + iter (bandwidth)
SequenceOf(h) ==
    IF h.suite = "latency" THEN h.i ELSE BandwidthSequenceBase + h.i

\* the row written to the CSV file for this iteration, with the outcome the
\* host prints for it (in test_latency "TIMEOUT (guest didn't start
\* processing)", "TIMEOUT (guest didn't finish processing)", "ERROR: n"; in
\* test_bandwidth "TIMEOUT", "TIMEOUT (processing)", "FAILED (error: n)"; or
\* the timings); guest_digest is history: the SHA256 of what the guest last
\* copied out of the region
Row(outcome, error_code) ==
    [suite |-> host.suite, frame_idx |-> host.frame_idx, i |-> host.i,
     sequence |-> SequenceOf(host), outcome |-> outcome,
     error_code |-> error_code,
     expected_hash |-> host.expected_hash,
     guest_digest |-> calculate_sha256(guest.measurement_buffer, guest.data_size)]

\* memset((void *)&shm->timing, 0, sizeof(struct timing_data))
IterClearTiming ==
    /\ host.pc = "iter_clear_timing"
    /\ Store("host", "timing" :> ZeroTiming)
    /\ HostGoto("iter_clear_error")
    /\ UNCHANGED <<guest, records, cfg, published, stalls, faults>>

\* a variant of IterClearError that stores an error code of the host's
IterClearError_StoresCode ==
    /\ host.pc = "iter_clear_error"
    /\ Store("host", "error_code" :> 3)
    /\ HostGoto("iter_store_sequence")
    /\ UNCHANGED <<guest, records, cfg, published, stalls, faults>>

\* shm->error_code = 0
IterClearError ==
    /\ host.pc = "iter_clear_error"
    /\ Store("host", "error_code" :> 0)
    /\ HostGoto("iter_store_sequence")
    /\ UNCHANGED <<guest, records, cfg, published, stalls, faults>>

\* shm->sequence = ...
IterStoreSequence ==
    /\ host.pc = "iter_store_sequence"
    /\ Store("host", "sequence" :> SequenceOf(host))
    /\ HostGoto("iter_store_data_size")
    /\ UNCHANGED <<guest, records, cfg, published, stalls, faults>>

\* shm->data_size = frame_size
IterStoreDataSize ==
    /\ host.pc = "iter_store_data_size"
    /\ Store("host", "data_size" :> host.frame_size)
    /\ HostGoto("iter_store_hash")
    /\ UNCHANGED <<guest, records, cfg, published, stalls, faults>>

\* memcpy((void*)shm->data_sha256, expected_hash, 32)
IterStoreHash ==
    /\ host.pc = "iter_store_hash"
    /\ Store("host", "data_sha256" :> host.expected_hash)
    /\ HostGoto("iter_copy_begin")
    /\ UNCHANGED <<guest, records, cfg, published, stalls, faults>>

\* memcpy((void*)data_ptr, test_frame, frame_size): under way
IterCopyBegin ==
    /\ host.pc = "iter_copy_begin"
    /\ Store("host", "buffer" :> PartialCopy(shm.buffer, host.test_frame))
    /\ HostGoto("iter_copy_end")
    /\ UNCHANGED <<guest, records, cfg, published, stalls, faults>>

\* ... complete
IterCopyEnd ==
    /\ host.pc = "iter_copy_end"
    /\ Store("host", "buffer" :> host.test_frame)
    /\ HostGoto("iter_publish_sending")
    /\ UNCHANGED <<guest, records, cfg, published, stalls, faults>>

\* set_host_state(shm, HOST_STATE_SENDING)
IterPublishSending ==
    /\ host.pc = "iter_publish_sending"
    /\ set_host_state(HOST_STATE_SENDING)
    /\ published' = published \cup
           {[sequence |-> shm.sequence, data_size |-> shm.data_size,
             data_sha256 |-> shm.data_sha256]}
    /\ host' = [host EXCEPT
                  !.pc = "iter_wait_processing",
                  !.guest_ready = "not_waited",
                  !.publications =
                      IF shm.host_state # HOST_STATE_SENDING
                      THEN host.publications + 1 ELSE host.publications]
    /\ UNCHANGED <<guest, records, cfg, stalls, faults>>

\* wait_for_guest_state(shm, GUEST_STATE_PROCESSING, 1 s or 2 s) returns true
IterWaitProcessing ==
    /\ host.pc = "iter_wait_processing"
    /\ shm.guest_state = HostWaits[host.pc]
    /\ HostGoto("iter_wait_acknowledged")
    /\ UNCHANGED <<shm, stored, guest, records, cfg, published, stalls, faults>>

\* ... returns false: the row of zeros, and `continue'
IterTimeoutProcessing ==
    /\ host.pc = "iter_wait_processing"
    /\ shm.guest_state # HostWaits[host.pc]
    /\ TimeoutFires(GuestBlocked, host.pc)
    /\ records' = Append(records, Row("timeout_processing", 0))
    /\ host' = NextIteration(host)
    /\ UNCHANGED <<shm, stored, guest, cfg, published, faults>>

\* wait_for_guest_state(shm, GUEST_STATE_ACKNOWLEDGED, 10 s) returns true
IterWaitAcknowledged ==
    /\ host.pc = "iter_wait_acknowledged"
    /\ shm.guest_state = HostWaits[host.pc]
    /\ HostGoto("iter_check_error")
    /\ UNCHANGED <<shm, stored, guest, records, cfg, published, stalls, faults>>

\* a variant of IterTimeoutAcknowledged that reports the timeout as the one of
\* the wait for PROCESSING
IterTimeoutAcknowledged_SameReport ==
    /\ host.pc = "iter_wait_acknowledged"
    /\ shm.guest_state # HostWaits[host.pc]
    /\ TimeoutFires(GuestBlocked, host.pc)
    /\ records' = Append(records, Row("timeout_processing", 0))
    /\ host' = NextIteration(host)
    /\ UNCHANGED <<shm, stored, guest, cfg, published, faults>>

\* ... returns false: the row of zeros, and `continue'
IterTimeoutAcknowledged ==
    /\ host.pc = "iter_wait_acknowledged"
    /\ shm.guest_state # HostWaits[host.pc]
    /\ TimeoutFires(GuestBlocked, host.pc)
    /\ records' = Append(records, Row("timeout_acknowledged", 0))
    /\ host' = NextIteration(host)
    /\ UNCHANGED <<shm, stored, guest, cfg, published, faults>>

\* a variant of IterCheckError that runs the iteration again after an error
IterCheckError_Retries ==
    /\ host.pc = "iter_check_error"
    /\ IF shm.error_code # 0
       THEN /\ records' = Append(records, Row("error", shm.error_code))
            /\ HostGoto("iter_clear_timing")
       ELSE /\ HostGoto("iter_read_timings")
            /\ UNCHANGED records
    /\ UNCHANGED <<shm, stored, guest, cfg, published, stalls, faults>>

\* if (shm->error_code != 0): the row of zeros, and `continue'
IterCheckError ==
    /\ host.pc = "iter_check_error"
    /\ IF shm.error_code # 0
       THEN /\ records' = Append(records, Row("error", shm.error_code))
            /\ host' = NextIteration(host)
       ELSE /\ HostGoto("iter_read_timings")
            /\ UNCHANGED records
    /\ UNCHANGED <<shm, stored, guest, cfg, published, stalls, faults>>

\* the modulus of uint64_t arithmetic, in the units of the model's durations
UintModulus == 65536

\* a variant of NotificationEst that subtracts without the comparison
NotificationEst_Unclamped(roundtrip_time, guest_total_time) ==
    (roundtrip_time - guest_total_time) % UintModulus

\* notification_est = (roundtrip_time > guest_total_time) ?
\*                    (roundtrip_time - guest_total_time) : 0
NotificationEst(roundtrip_time, guest_total_time) ==
    IF roundtrip_time > guest_total_time
    THEN (roundtrip_time - guest_total_time) % UintModulus
    ELSE 0

\* roundtrip_time = roundtrip_end - roundtrip_start, the loads of shm->timing,
\* notification_est (test_latency only), successful++, and the row with
\* success = 1
IterReadTimings ==
    /\ host.pc = "iter_read_timings"
    /\ records' = Append(records, Row("ok", 0))
    /\ \E roundtrip_time \in 0..MaxRoundtrip :
          host' = [host EXCEPT
                      !.pc = "iter_set_ready", !.guest_timing = shm.timing,
                      !.roundtrip_time = roundtrip_time,
                      !.notification_est =
                          IF host.suite = "latency"
                          THEN NotificationEst(roundtrip_time,
                                               shm.timing.guest_total_duration)
                          ELSE 0]
    /\ UNCHANGED <<shm, stored, guest, cfg, published, stalls, faults>>

\* a variant of IterSetReady that leaves host_state at SENDING
IterSetReady_StaysSending ==
    /\ host.pc = "iter_set_ready"
    /\ NoStore
    /\ HostGoto("iter_wait_ready")
    /\ UNCHANGED <<guest, records, cfg, published, stalls, faults>>

\* set_host_state(shm, HOST_STATE_READY)
IterSetReady ==
    /\ host.pc = "iter_set_ready"
    /\ set_host_state(HOST_STATE_READY)
    /\ HostGoto("iter_wait_ready")
    /\ UNCHANGED <<guest, records, cfg, published, stalls, faults>>

\* wait_for_guest_state(shm, GUEST_STATE_READY, 1 s) returns true
IterWaitReady ==
    /\ host.pc = "iter_wait_ready"
    /\ shm.guest_state = HostWaits[host.pc]
    /\ host' = [NextIteration(host) EXCEPT !.guest_ready = "ready"]
    /\ UNCHANGED <<shm, stored, guest, records, cfg, published, stalls, faults>>

\* ... returns false: a warning, and the loop goes on
IterWaitReadyTimeout ==
    /\ host.pc = "iter_wait_ready"
    /\ shm.guest_state # HostWaits[host.pc]
    /\ TimeoutFires(GuestBlocked, host.pc)
    /\ host' = [NextIteration(host) EXCEPT !.guest_ready = "timeout"]
    /\ UNCHANGED <<shm, stored, guest, records, cfg, published, faults>>

HostNext ==
    \/ HostStart \/ InitClearMagic \/ InitSetInitializing \/ InitZeroHeader
    \/ InitSetMagic \/ InitSetReady \/ InitWaitGuestReady \/ InitWaitGuestTimeout
    \/ PressEnter \/ LatencyBegin \/ PressEnterBandwidth \/ BandwidthFrame
    \/ IterClearTiming \/ IterClearError \/ IterStoreSequence
    \/ IterStoreDataSize \/ IterStoreHash \/ IterCopyBegin \/ IterCopyEnd
    \/ IterPublishSending \/ IterWaitProcessing \/ IterTimeoutProcessing
    \/ IterWaitAcknowledged \/ IterTimeoutAcknowledged \/ IterCheckError
    \/ IterReadTimings \/ IterSetReady \/ IterWaitReady \/ IterWaitReadyTimeout
    \/ ShutdownCompleted \/ ShutdownTestComplete

----------------------------------------------------------------------------
(* guest_reader.c: main, monitor_latency, process_single_message *)

GuestGoto(pc) == guest' = [guest EXCEPT !.pc = pc]

\* main after mmap: set_guest_state(shm, GUEST_STATE_UNINITIALIZED)
GuestStart ==
    /\ guest.pc = "off"
    /\ set_guest_state(GUEST_STATE_UNINITIALIZED)
    /\ GuestGoto("set_waiting")
    /\ UNCHANGED <<host, records, cfg, published, stalls, faults>>

\* set_guest_state(shm, GUEST_STATE_WAITING_HOST_INIT)
GuestSetWaiting ==
    /\ guest.pc = "set_waiting"
    /\ set_guest_state(GUEST_STATE_WAITING_HOST_INIT)
    /\ GuestGoto("handshake")
    /\ UNCHANGED <<host, records, cfg, published, stalls, faults>>

\* initialize_guest_communication returns true
GuestHandshake ==
    /\ guest.pc = "handshake"
    /\ HandshakeDone
    /\ guest' = [guest EXCEPT !.pc = "set_ready", !.seen = Observation]
    /\ UNCHANGED <<shm, stored, host, records, cfg, published, stalls, faults>>

\* a variant of GuestHandshakeTimeout that proceeds to READY, as the host does
GuestHandshakeTimeout_Proceeds ==
    /\ guest.pc = "handshake"
    /\ ~HandshakeDone
    /\ TimeoutFires(HostBlocked, guest.pc)
    /\ GuestGoto("set_ready")
    /\ UNCHANGED <<shm, stored, host, records, cfg, published, faults>>

\* ... returns false after 5000 polls; monitor_latency calls exit(1)
GuestHandshakeTimeout ==
    /\ guest.pc = "handshake"
    /\ ~HandshakeDone
    /\ TimeoutFires(HostBlocked, guest.pc)
    /\ guest' = [guest EXCEPT !.pc = "exited", !.exit_status = 1]
    /\ UNCHANGED <<shm, stored, host, records, cfg, published, faults>>

\* set_guest_state(shm, GUEST_STATE_READY), after the handshake
GuestSetReady ==
    /\ guest.pc = "set_ready"
    /\ set_guest_state(GUEST_STATE_READY)
    /\ GuestGoto("loop_head")
    /\ UNCHANGED <<host, records, cfg, published, stalls, faults>>

\* a variant of GuestLoopHead whose loop condition is message_count <=
\* expected_count
GuestLoopHead_OneMore ==
    /\ guest.pc = "loop_head"
    /\ IF guest.message_count <= cfg.expected_count /\ shm.test_complete # 1
       THEN GuestGoto("wait_sending")
       ELSE guest' = [guest EXCEPT !.pc = "exited", !.exit_status = 0]
    /\ UNCHANGED <<shm, stored, host, records, cfg, published, stalls, faults>>

\* while (message_count < expected_count) { if (shm->test_complete == 1) break;
GuestLoopHead ==
    /\ guest.pc = "loop_head"
    /\ IF guest.message_count < cfg.expected_count /\ shm.test_complete # 1
       THEN GuestGoto("wait_sending")
       ELSE guest' = [guest EXCEPT !.pc = "exited", !.exit_status = 0]
    /\ UNCHANGED <<shm, stored, host, records, cfg, published, stalls, faults>>

\* while (get_host_state(shm) != HOST_STATE_SENDING && shm->test_complete == 0)
GuestWaitSending ==
    /\ guest.pc = "wait_sending"
    /\ SendingSeen
    /\ guest' = [guest EXCEPT !.pc = "check_complete",
                              !.seen = [Observation EXCEPT !.magic = guest.seen.magic]]
    /\ UNCHANGED <<shm, stored, host, records, cfg, published, stalls, faults>>

\* if (shm->test_complete == 1) break; message_count++
GuestCheckComplete ==
    /\ guest.pc = "check_complete"
    /\ IF shm.test_complete = 1
       THEN guest' = [guest EXCEPT !.pc = "exited", !.exit_status = 0]
       ELSE guest' = [guest EXCEPT !.pc = "set_processing",
                                  !.message_count = guest.message_count + 1]
    /\ UNCHANGED <<shm, stored, host, records, cfg, published, stalls, faults>>

\* process_single_message: set_guest_state(shm, GUEST_STATE_PROCESSING)
GuestSetProcessing ==
    /\ guest.pc = "set_processing"
    /\ set_guest_state(GUEST_STATE_PROCESSING)
    /\ guest' = [guest EXCEPT !.pc = "read_sequence", !.wrote = {}]
    /\ UNCHANGED <<host, records, cfg, published, stalls, faults>>

\* uint32_t sequence = shm->sequence
GuestReadSequence ==
    /\ guest.pc = "read_sequence"
    /\ guest' = [guest EXCEPT !.pc = "read_data_size", !.sequence = shm.sequence]
    /\ UNCHANGED <<shm, stored, host, records, cfg, published, stalls, faults>>

\* uint32_t data_size = shm->data_size
GuestReadDataSize ==
    /\ guest.pc = "read_data_size"
    /\ guest' = [guest EXCEPT !.pc = "read_hash", !.data_size = shm.data_size]
    /\ UNCHANGED <<shm, stored, host, records, cfg, published, stalls, faults>>

\* memcpy(expected_hash, (const void *)shm->data_sha256, 32); the locals
\* success, error_code and timing start afresh
GuestReadHash ==
    /\ guest.pc = "read_hash"
    /\ guest' = [guest EXCEPT !.pc = "malloc", !.expected_hash = shm.data_sha256,
                              !.error_code = 0, !.timing = ZeroTiming]
    /\ UNCHANGED <<shm, stored, host, records, cfg, published, stalls, faults>>

\* measurement_buffer = malloc(data_size); on failure shm->error_code = 2 and
\* process_single_message returns false
GuestMalloc ==
    /\ guest.pc = "malloc"
    /\ \/ /\ GuestGoto("memory_tests")
          /\ UNCHANGED <<shm, stored, faults>>
       \/ /\ faults < MaxFaults
          /\ faults' = faults + 1
          /\ Store("guest", "error_code" :> 2)
          /\ guest' = [guest EXCEPT !.pc = "set_acknowledged", !.error_code = 2,
                                    !.wrote = {"error_code"}]
    /\ UNCHANGED <<host, records, cfg, published, stalls>>

\* run_memory_access_tests: warm-up, hot and cold reads of the payload, then
\* memcpy(measurement_buffer, data_ptr, data_size); every access to the region
\* is a load
run_memory_access_tests(g, second_pass) ==
    [g EXCEPT !.measurement_buffer = shm.buffer,
              !.timing.guest_hot_cache_duration = 1,
              !.timing.guest_cold_cache_duration = 2,
              !.timing.guest_second_pass_duration = second_pass,
              !.timing.guest_perf = 1]

\* a variant of GuestMemoryTests whose memcpy has its arguments swapped: it
\* copies the measurement buffer over the payload
GuestMemoryTests_WritesBack ==
    /\ guest.pc = "memory_tests"
    /\ Store("guest", "buffer" :> guest.measurement_buffer)
    /\ \E second_pass \in 1..MaxDur :
          guest' = [run_memory_access_tests(guest, second_pass)
                        EXCEPT !.pc = "verify"]
    /\ UNCHANGED <<host, records, cfg, published, stalls, faults>>

GuestMemoryTests ==
    /\ guest.pc = "memory_tests"
    /\ \E second_pass \in 1..MaxDur :
          guest' = [run_memory_access_tests(guest, second_pass)
                        EXCEPT !.pc = "verify"]
    /\ UNCHANGED <<shm, stored, host, records, cfg, published, stalls, faults>>

\* verify_data_integrity over the local copy
hash_match(g) ==
    calculate_sha256(g.measurement_buffer, g.data_size) = g.expected_hash

\* a variant of GuestVerify that returns on a hash mismatch before the
\* timings are stored, as the allocation failure does
GuestVerify_ReturnsOnMismatch ==
    /\ guest.pc = "verify"
    /\ guest' = [guest EXCEPT
                    !.pc = IF hash_match(guest) THEN "write_timings"
                           ELSE "write_error",
                    !.error_code = IF hash_match(guest) THEN 0 ELSE 1,
                    !.timing.guest_cached_verify_duration = 3,
                    !.timing.guest_total_duration =
                        7 + guest.timing.guest_second_pass_duration]
    /\ UNCHANGED <<shm, stored, host, records, cfg, published, stalls, faults>>

\* memcpy(local_buffer, ...); verify_data_with_timing; error_code = 1 when the
\* hash does not match; total_duration
GuestVerify ==
    /\ guest.pc = "verify"
    /\ guest' = [guest EXCEPT
                    !.pc = "write_timings",
                    !.error_code = IF hash_match(guest) THEN 0 ELSE 1,
                    !.timing.guest_cached_verify_duration = 3,
                    !.timing.guest_total_duration =
                        7 + guest.timing.guest_second_pass_duration]
    /\ UNCHANGED <<shm, stored, host, records, cfg, published, stalls, faults>>

\* the block stored into shm->timing: the legacy fields, the phase durations
\* and guest_perf
ReportedTiming(t) ==
    [t EXCEPT !.guest_copy_duration = t.guest_second_pass_duration,
              !.guest_verify_duration = t.guest_cached_verify_duration]

\* the legacy fields of struct timing_data, stored first
LegacyTimingFields ==
    {"guest_copy_duration", "guest_verify_duration", "guest_total_duration"}

\* the block in the region once the fields `fs' of the guest's block are stored
WithFields(fs, t) ==
    [f \in TimingFields |-> IF f \in fs THEN ReportedTiming(t)[f]
                           ELSE shm.timing[f]]

\* shm->timing.guest_copy_duration, guest_verify_duration, guest_total_duration
\* = ...: the stores of the block are separate stores, and the host's stores
\* can fall between them
GuestWriteTimings ==
    /\ guest.pc = "write_timings"
    /\ Store("guest", "timing" :> WithFields(LegacyTimingFields, guest.timing))
    /\ GuestGoto("write_timings_detail")
    /\ UNCHANGED <<host, records, cfg, published, stalls, faults>>

\* shm->timing.guest_hot_cache_duration ... guest_perf = ...
GuestWriteTimingsDetail ==
    /\ guest.pc = "write_timings_detail"
    /\ Store("guest", "timing" :>
                 WithFields(TimingFields \ LegacyTimingFields, guest.timing))
    /\ guest' = [guest EXCEPT !.pc = "write_error",
                              !.wrote = guest.wrote \cup {"timing"}]
    /\ UNCHANGED <<host, records, cfg, published, stalls, faults>>

\* if (!success) shm->error_code = error_code; return success
GuestWriteError ==
    /\ guest.pc = "write_error"
    /\ IF guest.error_code # 0
       THEN /\ Store("guest", "error_code" :> guest.error_code)
            /\ guest' = [guest EXCEPT !.pc = "set_acknowledged",
                                      !.wrote = guest.wrote \cup {"error_code"}]
       ELSE NoStore /\ GuestGoto("set_acknowledged")
    /\ UNCHANGED <<host, records, cfg, published, stalls, faults>>

\* the host has published SENDING and has not yet seen PROCESSING: it polls
\* every 10 us, so it misses PROCESSING only when it is delayed
HostMissesProcessing ==
    host.pc = "iter_wait_processing" /\ shm.guest_state = GUEST_STATE_PROCESSING

\* a variant of GuestSetAcknowledged that does not wait for the host's READY
GuestSetAcknowledged_SkipsWait ==
    /\ guest.pc = "set_acknowledged"
    /\ set_guest_state(GUEST_STATE_ACKNOWLEDGED)
    /\ IF HostMissesProcessing
       THEN Len(stalls) < MaxStalls /\ stalls' = Append(stalls, "host_poll")
       ELSE UNCHANGED stalls
    /\ GuestGoto("set_ready_again")
    /\ UNCHANGED <<host, records, cfg, published, faults>>

\* set_guest_state(shm, GUEST_STATE_ACKNOWLEDGED)
GuestSetAcknowledged ==
    /\ guest.pc = "set_acknowledged"
    /\ set_guest_state(GUEST_STATE_ACKNOWLEDGED)
    /\ IF HostMissesProcessing
       THEN Len(stalls) < MaxStalls /\ stalls' = Append(stalls, "host_poll")
       ELSE UNCHANGED stalls
    /\ GuestGoto("wait_host_ready")
    /\ UNCHANGED <<host, records, cfg, published, faults>>

\* while (get_host_state(shm) != HOST_STATE_READY && shm->test_complete == 0)
GuestWaitHostReady ==
    /\ guest.pc = "wait_host_ready"
    /\ HostReadySeen
    /\ guest' = [guest EXCEPT !.pc = "set_ready_again",
                              !.seen = [Observation EXCEPT !.magic = guest.seen.magic]]
    /\ UNCHANGED <<shm, stored, host, records, cfg, published, stalls, faults>>

\* set_guest_state(shm, GUEST_STATE_READY), at the end of the loop body
GuestSetReadyAgain ==
    /\ guest.pc = "set_ready_again"
    /\ set_guest_state(GUEST_STATE_READY)
    /\ GuestGoto("loop_head")
    /\ UNCHANGED <<host, records, cfg, published, stalls, faults>>

GuestNext ==
    \/ GuestStart \/ GuestSetWaiting \/ GuestHandshake \/ GuestHandshakeTimeout
    \/ GuestSetReady \/ GuestLoopHead \/ GuestWaitSending \/ GuestCheckComplete
    \/ GuestSetProcessing \/ GuestReadSequence \/ GuestReadDataSize
    \/ GuestReadHash \/ GuestMalloc \/ GuestMemoryTests \/ GuestVerify
    \/ GuestWriteTimings \/ GuestWriteTimingsDetail \/ GuestWriteError
    \/ GuestSetAcknowledged
    \/ GuestWaitHostReady \/ GuestSetReadyAgain

----------------------------------------------------------------------------

Next == HostNext \/ GuestNext

Spec == Init /\ [][Next]_vars

\* each peer is a running process: it keeps taking its steps
FairSpec == Spec /\ WF_vars(HostNext) /\ WF_vars(GuestNext)

\* the same programs, built for regions of several sizes
CapacitySpec == CapacityInit /\ [][Next]_vars

\* the guest process is not started at all, or it stops taking steps where it
\* is (killed, suspended, or hung outside the protocol): the region keeps
\* what the guest has stored so far
ReaderStops ==
    /\ guest.pc \notin {"exited", "stopped"}
    /\ GuestGoto("stopped")
    /\ UNCHANGED <<shm, stored, host, records, cfg, published, stalls, faults>>

AnyReaderNext == Next \/ ReaderStops

\* the programs as built from the sources, over a fresh region or the region
\* a clean run has left
AnyReaderInit ==
    /\ cfg \in {c \in Configurations :
                  /\ ValidOptions(c)
                  /\ c.shmem_size = SHMEM_SIZE
                  /\ c.region \in {"zero", "clean_exit"}}
    /\ Start

\* the host against a guest that may stop at any point: the host is a running
\* process, and so is the guest until it stops
AnyReaderSpec ==
    /\ AnyReaderInit
    /\ [][AnyReaderNext]_vars
    /\ WF_vars(HostNext)
    /\ WF_vars(GuestNext)

----------------------------------------------------------------------------
(* Properties *)

\* the rows of iteration timeouts
TimeoutOutcomes == {"timeout_processing", "timeout_acknowledged"}

\* the positions of the host while it prepares a message
PreparingPcs ==
    {"iter_clear_timing", "iter_clear_error", "iter_store_sequence",
     "iter_store_data_size", "iter_store_hash", "iter_copy_begin",
     "iter_copy_end", "iter_publish_sending"}

\* the positions of the guest in process_single_message once it has loaded
\* sequence, data_size and the hash
HeaderLoadedPcs ==
    {"malloc", "memory_tests", "verify", "write_timings",
     "write_timings_detail", "write_error"}

\* the number of messages the host sends in a run of the programs as built
\* from the sources, where every frame fits
TotalIterations ==
    (IF cfg.run_latency THEN cfg.latency_count ELSE 0)
    + (IF cfg.run_bandwidth THEN Len(test_frames) * cfg.bandwidth_count ELSE 0)

\* C1: every store to host_state is a store of the host, and every store to
\* guest_state is a store of the guest, in every interleaving, at start-up,
\* in iterations, on timeouts and at shutdown.
C1_StateWordsOwned ==
    \A e \in stored :
        /\ e[2] = "host_state" => e[1] = "host"
        /\ e[2] = "guest_state" => e[1] = "guest"

\* C1 witness: both peers ran to their end, each stored its own state word,
\* and an iteration timed out on the way.
C1_Witness ==
    /\ host.pc = "done" /\ guest.pc = "exited"
    /\ <<"host", "host_state", FALSE>> \in stored
    /\ <<"guest", "guest_state", FALSE>> \in stored
    /\ \E k \in 1..Len(records) : records[k].outcome \in TimeoutOutcomes

\* C2: while host_state stays SENDING, the host stores nothing that changes
\* sequence, data_size, the hash or the payload.
C2_StableWhileSending ==
    [][(shm.host_state = HOST_STATE_SENDING
         /\ shm'.host_state = HOST_STATE_SENDING)
        => /\ shm'.sequence = shm.sequence
           /\ shm'.data_size = shm.data_size
           /\ shm'.data_sha256 = shm.data_sha256
           /\ shm'.buffer = shm.buffer]_vars

\* C3: the sequence, data_size and hash the guest has loaded for a message are
\* together the header of one message the host has published.
C3_LoadedHeaderWasPublished ==
    guest.pc \in HeaderLoadedPcs =>
        [sequence |-> guest.sequence, data_size |-> guest.data_size,
         data_sha256 |-> guest.expected_hash] \in published

\* C4: after an iteration that timed out, the host prepares the next message
\* only with host_state = READY.
C4_ReadyAfterTimeout ==
    (/\ Len(records) > 0
     /\ records[Len(records)].outcome \in TimeoutOutcomes
     /\ host.pc \in PreparingPcs)
        => shm.host_state = HOST_STATE_READY

\* C5: when the only delay of a run is one by which the guest made a single
\* iteration time out, no allocation fails and the guest serves all messages
\* of the run, every row after that of a timed-out iteration is a success.
C5_ResumesAfterOneTimeout ==
    (/\ Len(stalls) = 1
     /\ stalls[1] \in {"iter_wait_processing", "iter_wait_acknowledged"}
     /\ faults = 0
     /\ cfg.region = "zero"
     /\ cfg.expected_count >= TotalIterations)
        => \A k \in 1..Len(records) : \A j \in (k + 1)..Len(records) :
              records[k].outcome \in TimeoutOutcomes
                  => records[j].outcome = "ok"

\* C6: the row after that of an iteration the guest acknowledged with an
\* error_code other than 0 is a success, when nothing is delayed beyond a
\* bound and the guest serves all messages of the run.
C6_NextAfterIntegrityFailure ==
    (stalls = <<>> /\ cfg.region = "zero"
     /\ cfg.expected_count >= TotalIterations)
        => \A k \in 1..(Len(records) - 1) :
              (records[k].outcome = "error" /\ records[k].error_code # 0)
                  => records[k + 1].outcome = "ok"

\* the first iteration has completed successfully
FirstIterationOk == Len(records) > 0 /\ records[1].outcome = "ok"

\* no delay beyond a bound and no failed allocation so far
Undisturbed == stalls = <<>> /\ faults = 0

\* neither peer has started, and the region is zero-filled
BothOff == cfg.region = "zero" /\ host.pc = "off" /\ guest.pc = "off"

\* both peers have published READY over an initialised header
BothReady ==
    /\ shm.magic = MAGIC
    /\ shm.host_state = HOST_STATE_READY
    /\ shm.guest_state = GUEST_STATE_READY

\* C7: from a zero-filled region, whichever peer starts first, and with no
\* delay beyond a bound and no failed allocation, both peers come to READY
\* and the first iteration completes successfully.
C7_StartOrderIndependent ==
    /\ BothOff ~> (~Undisturbed \/ BothReady)
    /\ BothOff ~> (~Undisturbed \/ FirstIterationOk)

\* C7 witness: an undisturbed run from a zero-filled region whose first
\* iteration has succeeded.
C7_Witness ==
    cfg.region = "zero" /\ Undisturbed /\ FirstIterationOk

\* the fields of I2; perf_sample is guest_perf, inside timing
ReaderFields == {"guest_state", "error_code", "timing"}

WriterFields ==
    {"magic", "test_complete", "host_state", "sequence", "data_size",
     "data_sha256", "buffer"}

\* C9: only the host stores into magic, test_complete, host_state, sequence,
\* data_size, the hash and the payload; the guest only loads the payload.
C9_OnlyWriterStores ==
    \A e \in stored : e[2] \in WriterFields => e[1] = "host"

\* C9 witness: the guest has run its measurement sequence over a payload the
\* host copied in, and has verified it.
C9_Witness ==
    /\ <<"host", "buffer", FALSE>> \in stored
    /\ guest.pc = "write_timings"
    /\ guest.measurement_buffer = host.test_frame
    /\ guest.error_code = 0

\* C10: in every row of a successful iteration, the SHA256 of the bytes the
\* guest copied out of the region is the hash the host stored for that
\* iteration.
C10_SuccessMeansSameDigest ==
    \A k \in 1..Len(records) :
        records[k].outcome = "ok"
            => records[k].guest_digest = records[k].expected_hash

\* the guest's step from PROCESSING to ACKNOWLEDGED
Acknowledges ==
    /\ shm.guest_state = GUEST_STATE_PROCESSING
    /\ shm'.guest_state = GUEST_STATE_ACKNOWLEDGED

\* C11 as stated: the guest takes guest_state from PROCESSING to ACKNOWLEDGED
\* only after it has stored the timings of the message, and error_code when it
\* is not 0, on every path out of process_single_message.
C11_TimingsBeforeAcknowledged ==
    [][Acknowledges =>
          /\ "timing" \in guest.wrote
          /\ guest.error_code # 0 => "error_code" \in guest.wrote]_vars

\* C11 amended: the guest takes guest_state from PROCESSING to ACKNOWLEDGED
\* only after it has stored error_code when it is not 0, and after it has
\* stored the timings of the message unless the allocation of the measurement
\* buffer failed, which it reports as error_code 2 without timings.
C11_TimingsUnlessAllocationFailed ==
    [][Acknowledges =>
          /\ guest.error_code # 0 => "error_code" \in guest.wrote
          /\ \/ "timing" \in guest.wrote
             \/ guest.error_code = 2 /\ guest.wrote = {"error_code"}]_vars

\* C11 witness: the guest has acknowledged a message it failed with a hash
\* mismatch, having stored both the timings and error_code 1.
C11_Witness ==
    /\ shm.guest_state = GUEST_STATE_ACKNOWLEDGED
    /\ guest.pc = "wait_host_ready"
    /\ guest.error_code = 1
    /\ guest.wrote = {"timing", "error_code"}

\* the header of the iteration the host is in
CurrentHeader ==
    [sequence |-> SequenceOf(host), data_size |-> host.frame_size,
     data_sha256 |-> host.expected_hash]

\* the header the guest loaded for the message it processed last
LoadedHeader ==
    [sequence |-> guest.sequence, data_size |-> guest.data_size,
     data_sha256 |-> guest.expected_hash]

\* C12: when the host reads error_code and the timings to record an
\* iteration, guest_state is ACKNOWLEDGED, the guest's acknowledgement is that
\* of the message of this iteration, and the host has not yet stored READY.
C12_ReadsUnderOwnAcknowledgement ==
    host.pc \in {"iter_check_error", "iter_read_timings"} =>
        /\ shm.guest_state = GUEST_STATE_ACKNOWLEDGED
        /\ guest.pc = "wait_host_ready"
        /\ LoadedHeader = CurrentHeader
        /\ shm.host_state = HOST_STATE_SENDING

\* C13: while guest_state stays ACKNOWLEDGED, the timings block does not
\* change.
C13_TimingsStableWhileAcknowledged ==
    [][(shm.guest_state = GUEST_STATE_ACKNOWLEDGED
         /\ shm'.guest_state = GUEST_STATE_ACKNOWLEDGED)
        => shm'.timing = shm.timing]_vars

\* the transitions of the host state machine
WriterTransitions ==
    {<<HOST_STATE_UNINITIALIZED, HOST_STATE_INITIALIZING>>,
     <<HOST_STATE_INITIALIZING, HOST_STATE_READY>>,
     <<HOST_STATE_READY, HOST_STATE_SENDING>>,
     <<HOST_STATE_SENDING, HOST_STATE_READY>>,
     <<HOST_STATE_READY, HOST_STATE_COMPLETED>>}

\* C14: in a run on a zero-filled region, host_state changes only along
\* UNINITIALIZED -> INITIALIZING -> READY -> SENDING -> READY -> COMPLETED,
\* and it leaves SENDING only by the store of READY that follows the host's
\* reading of the acknowledged message's error_code and timings.
C14_WriterFsm ==
    [][(cfg.region = "zero" /\ shm'.host_state # shm.host_state)
        => /\ <<shm.host_state, shm'.host_state>> \in WriterTransitions
           /\ shm.host_state = HOST_STATE_SENDING
                 => host.pc = "iter_set_ready"]_vars

\* the guest's step from ACKNOWLEDGED to READY
ReturnsToReady ==
    /\ shm.guest_state = GUEST_STATE_ACKNOWLEDGED
    /\ shm'.guest_state = GUEST_STATE_READY

StartsProcessing ==
    /\ shm.guest_state = GUEST_STATE_READY
    /\ shm'.guest_state = GUEST_STATE_PROCESSING

\* C16: the guest takes guest_state from READY to PROCESSING only when it has
\* read magic = MAGIC (in its handshake) and host_state = SENDING (in the wait
\* that precedes the message).
C16_ProcessingOnlyAfterMagicAndSending ==
    [][StartsProcessing =>
          /\ guest.seen.magic = MAGIC
          /\ guest.seen.host_state = HOST_STATE_SENDING]_vars

\* C16 witness: the guest has entered PROCESSING for a message.
C16_Witness ==
    /\ shm.guest_state = GUEST_STATE_PROCESSING
    /\ guest.pc = "read_sequence"
    /\ guest.seen.magic = MAGIC
    /\ guest.seen.host_state = HOST_STATE_SENDING

\* the host's positions before init_shared_memory has stored READY in this run
InitialisingPcs ==
    {"off", "init_clear_magic", "init_set_initializing", "init_zero_header",
     "init_set_magic", "init_set_ready"}

\* C17: whatever the region held when the guest mapped it, the guest takes
\* guest_state from WAITING_HOST_INIT to READY only once the host of this run
\* has completed its step from INITIALIZING to READY.
C17_ReadyOnlyAfterCurrentInit ==
    [][(/\ shm.guest_state = GUEST_STATE_WAITING_HOST_INIT
        /\ shm'.guest_state = GUEST_STATE_READY)
          => host.pc \notin InitialisingPcs]_vars

\* the host has just started on a region filled with 0xFF, the guest has not
StaleHostFirst ==
    /\ cfg.region = "all_ones"
    /\ host.pc = "init_clear_magic"
    /\ guest.pc = "off"

\* the header as init_shared_memory leaves it: zeroed, magic and READY published
FullyInitialised ==
    /\ shm.magic = MAGIC
    /\ shm.host_state = HOST_STATE_READY
    /\ shm.test_complete = 0
    /\ shm.sequence = 0
    /\ shm.data_size = 0
    /\ shm.data_sha256 = ZeroHash
    /\ shm.error_code = 0
    /\ shm.timing = ZeroTiming

\* C18: on a region filled with 0xFF, with the host started before the guest,
\* the host initialises the whole header and publishes magic with READY, and,
\* with no delay beyond a bound and no failed allocation, the first iteration
\* is recorded as successful once the guest has come up.
C18_StaleRegionHostFirst ==
    /\ [](cfg.region = "all_ones" /\ host.pc = "init_wait_guest"
             => FullyInitialised)
    /\ StaleHostFirst ~> (~Undisturbed \/ FirstIterationOk)

\* C18 witness: an undisturbed run on a region that was filled with 0xFF whose
\* first iteration has succeeded.
C18_Witness ==
    cfg.region = "all_ones" /\ Undisturbed /\ FirstIterationOk

\* the guest has given up its handshake: exit(1) in monitor_latency
GuestGaveUp == guest.pc = "exited" /\ guest.exit_status = 1

\* C19: on a region left by a clean exit (magic, the final states and
\* test_complete of the previous run), with no delay beyond a bound and no
\* failed allocation, the guest does not give up waiting for the host's READY.
C19_RestartAfterCleanExit ==
    (cfg.region = "clean_exit" /\ Undisturbed) => ~GuestGaveUp

\* the guest's polling loops: the handshake, the wait for SENDING and the wait
\* for the host's READY
GuestWaitPcs == {"handshake", "wait_sending", "wait_host_ready"}

\* C20: a peer that polls the counterparty's state can always leave the wait
\* by a step of its own, the condition being met or its timeout expiring,
\* whatever the counterparty does or fails to do.
C20_EveryWaitBounded ==
    Len(stalls) < MaxStalls =>
        /\ guest.pc \in GuestWaitPcs => ENABLED GuestNext
        /\ host.pc \in DOMAIN HostWaits => ENABLED HostNext

\* the positions of the guest in the message loop of monitor_latency
ServingPcs ==
    {"loop_head", "wait_sending", "check_complete", "set_processing",
     "read_sequence", "read_data_size", "read_hash", "malloc", "memory_tests",
     "verify", "write_timings", "write_timings_detail", "write_error",
     "set_acknowledged",
     "wait_host_ready", "set_ready_again"}

\* C21: the host ends its run with host_state = COMPLETED and test_complete = 1
\* in the region, and a guest that is anywhere in its message loop when the
\* host has ended leaves the loop and exits with status 0.
C21_ShutdownEndsReader ==
    /\ [](host.pc = "done" =>
            shm.host_state = HOST_STATE_COMPLETED /\ shm.test_complete = 1)
    /\ (host.pc = "done" /\ guest.pc \in ServingPcs)
          ~> (guest.pc = "exited" /\ guest.exit_status = 0)

\* C21 witness: the host has shut down and the guest, which read
\* test_complete = 1 in one of its waits, has exited.
C21_Witness ==
    /\ host.pc = "done"
    /\ guest.pc = "exited" /\ guest.exit_status = 0
    /\ guest.seen.test_complete = 1
    /\ guest.message_count < cfg.expected_count

\* C22: the guest counts a message each time it is about to enter PROCESSING
\* and enters PROCESSING only with a count of at most expected_count and a
\* test_complete it has read as 0; at the head of its loop it exits exactly
\* when it has counted expected_count messages or reads test_complete = 1,
\* and after its wait for SENDING it exits when it reads test_complete = 1.
C22_ServesAtMostN ==
    [][/\ StartsProcessing =>
            /\ guest.pc = "set_processing"
            /\ guest.message_count \in 1..cfg.expected_count
            /\ guest.seen.test_complete = 0
       /\ guest'.message_count # guest.message_count =>
            /\ guest'.message_count = guest.message_count + 1
            /\ guest'.pc = "set_processing"
       /\ (guest.pc = "loop_head" /\ guest'.pc # "loop_head") =>
            (guest'.pc = "exited" <=>
                (guest.message_count >= cfg.expected_count
                 \/ shm.test_complete = 1))
       /\ (guest.pc = "check_complete" /\ guest'.pc # "check_complete"
           /\ shm.test_complete = 1) => guest'.pc = "exited"]_vars

\* C22 witness: the guest has served expected_count messages and has left its
\* loop while the host was still running.
C22_Witness ==
    /\ guest.pc = "exited" /\ guest.exit_status = 0
    /\ guest.message_count = cfg.expected_count
    /\ shm.test_complete = 0
    /\ host.pc # "done"

\* the guest is up for the whole run: the region holds no READY of an earlier
\* guest, so the host's wait at start-up is for this guest, and the guest is
\* asked to serve every message of the run
ReaderUp ==
    /\ cfg.region \in {"zero", "all_ones"}
    /\ cfg.expected_count >= TotalIterations

Publishes ==
    host.pc = "iter_publish_sending" /\ host'.pc = "iter_wait_processing"

\* C24: the sequence of a message the host publishes is greater than the
\* sequence of every message it has published before in this run.
C24_SequenceStrictlyIncreasing ==
    [][Publishes => \A h \in published : h.sequence < shm.sequence]_vars

\* the host leaves the wait `pc' of an iteration without having read the
\* guest state it waits for
GivesUp(pc) ==
    /\ host.pc = pc
    /\ host' # host
    /\ shm.guest_state # HostWaits[pc]

\* the outcome of the row the host's step appends
Reports(outcome) ==
    /\ Len(records') = Len(records) + 1
    /\ records'[Len(records')].outcome = outcome

\* C25: the host begins its wait for ACKNOWLEDGED only out of its wait for
\* PROCESSING and on reading PROCESSING; both waits can end by timeout; and
\* the host reports a timeout of the first wait as "didn't start processing"
\* and a timeout of the second as "didn't finish processing".
C25_ProcessingThenAcknowledged ==
    /\ [][/\ (host'.pc = "iter_wait_acknowledged"
               /\ host.pc # "iter_wait_acknowledged")
                => /\ host.pc = "iter_wait_processing"
                   /\ shm.guest_state = GUEST_STATE_PROCESSING
          /\ GivesUp("iter_wait_processing") => Reports("timeout_processing")
          /\ GivesUp("iter_wait_acknowledged")
                => Reports("timeout_acknowledged")]_vars
    /\ []((/\ host.pc \in {"iter_wait_processing", "iter_wait_acknowledged"}
           /\ Len(stalls) < MaxStalls) => ENABLED HostNext)

\* C25 witness: one run has reported a timeout of each of the two waits.
C25_Witness ==
    /\ \E k \in 1..Len(records) : records[k].outcome = "timeout_processing"
    /\ \E k \in 1..Len(records) : records[k].outcome = "timeout_acknowledged"

\* the guest's handshake ends without the host's magic and READY: exit(1),
\* and the guest stays out of the message loop, in WAITING_HOST_INIT
ReaderHandshakeFatal ==
    /\ (guest.pc = "handshake" /\ guest' # guest /\ ~HandshakeDone)
          => (guest'.pc = "exited" /\ guest'.exit_status = 1)
    /\ GuestGaveUp
          => /\ guest' = guest
             /\ guest.message_count = 0
             /\ shm'.guest_state = GUEST_STATE_WAITING_HOST_INIT

\* C26 as stated: a handshake that times out is fatal for either peer: the
\* guest exits with status 1 and serves no message, and the host does not go
\* on to its tests.
C26_HandshakeTimeoutFatal ==
    [][/\ ReaderHandshakeFatal
       /\ GivesUp("init_wait_guest") => host'.pc # "press_enter"]_vars

\* C26 amended: a handshake that times out is fatal for the guest, which
\* exits with status 1 and serves no message; the host, whose wait for the
\* guest's READY times out, goes on to its tests.
C26_HandshakeTimeoutFatalForReader ==
    [][/\ ReaderHandshakeFatal
       /\ GivesUp("init_wait_guest") => host'.pc = "press_enter"]_vars

\* C26 witness: the host went on after a guest that was more than 10 s late,
\* and that guest has given up its handshake.
C26_Witness ==
    /\ GuestGaveUp
    /\ shm.guest_state = GUEST_STATE_WAITING_HOST_INIT
    /\ stalls = <<"init_wait_guest">>
    /\ host.pc \notin InitialisingPcs \cup {"init_wait_guest"}

\* the place of an iteration in the run: the latency suite first, then the
\* bandwidth suite frame size by frame size
IterationIndex(row) ==
    IF row.suite = "latency"
    THEN row.i + 1
    ELSE (IF cfg.run_latency THEN cfg.latency_count ELSE 0)
         + (row.frame_idx - 1) * cfg.bandwidth_count + row.i + 1

\* C27: the k-th row the host writes is the row of the k-th iteration of the
\* run, whatever the outcomes of the iterations, so that no iteration has two
\* rows or none and none is run again; and a host that has ended has written
\* a row for every iteration of its suites.
C27_OneRowPerIteration ==
    /\ \A k \in 1..Len(records) : IterationIndex(records[k]) = k
    /\ host.pc = "done" => Len(records) = TotalIterations

\* C27 witness: a run of both suites has ended with a successful row, a row
\* of an error and a row of a timeout.
C27_Witness ==
    /\ host.pc = "done"
    /\ Len(records) = TotalIterations
    /\ \E k \in 1..Len(records) : records[k].outcome = "ok"
    /\ \E k \in 1..Len(records) : records[k].outcome = "error"
    /\ \E k \in 1..Len(records) : records[k].outcome \in TimeoutOutcomes

\* C28: in the timings the host has read for an iteration, the legacy
\* guest_copy_duration equals guest_second_pass_duration.
C28_CopyIsReadWriteDuration ==
    host.guest_timing.guest_copy_duration
        = host.guest_timing.guest_second_pass_duration

\* C29: in an iteration of test_latency whose timings the host has read,
\* notification_est is roundtrip_time minus the guest's total duration when
\* roundtrip_time is the larger and 0 otherwise, and is never larger than
\* roundtrip_time.
C29_NotificationEstimateClamped ==
    (host.suite = "latency" /\ host.pc \in {"iter_set_ready", "iter_wait_ready"})
        => LET rt == host.roundtrip_time
               total == host.guest_timing.guest_total_duration
               est == host.notification_est
           IN  /\ est >= 0 /\ est <= rt
               /\ rt > total => est + total = rt
               /\ rt <= total => est = 0

\* C29 witness: the host has measured a round trip shorter than the total the
\* guest reports, and its estimate is 0.
C29_Witness ==
    /\ host.suite = "latency" /\ host.pc = "iter_set_ready"
    /\ host.guest_timing.guest_total_duration > host.roundtrip_time
    /\ host.roundtrip_time > 0
    /\ host.notification_est = 0

\* the payload sizes of the suites that run
SuiteSizes ==
    (IF cfg.run_latency THEN {latency_frame_size} ELSE {})
    \cup (IF cfg.run_bandwidth
          THEN {test_frames[idx] : idx \in 1..Len(test_frames)} ELSE {})

\* the host's step at a frame that does not fit: test_latency returns,
\* test_bandwidth goes to the next entry of its table
Rejects ==
    /\ host' # host
    /\ \/ host.pc = "latency_begin" /\ latency_frame_size > max_data_size
       \/ /\ host.pc = "bandwidth_frame"
          /\ host.frame_idx <= Len(test_frames)
          /\ test_frames[host.frame_idx] > max_data_size

\* C30: the host prepares and publishes only payloads of at most the capacity
\* and stores nothing into the region at a payload that is larger; a host
\* that has ended has published exactly the payload sizes of its suites that
\* are at most the capacity, a size equal to the capacity included.
C30_CapacityBoundary ==
    /\ [](/\ host.frame_size <= max_data_size
          /\ shm.data_size <= max_data_size
          /\ \A h \in published : h.data_size <= max_data_size
          /\ host.pc = "done" =>
                {h.data_size : h \in published}
                    = {size \in SuiteSizes : size <= max_data_size})
    /\ [][Rejects => shm' = shm /\ host'.pc \notin PreparingPcs]_vars

\* C30 witness: with a capacity of exactly the 1440p frame, the host has sent
\* the 1080p and the 1440p frame with success, has sent no 4K frame in either
\* suite, and has ended.
C30_Witness ==
    /\ host.pc = "done"
    /\ cfg.run_latency /\ cfg.run_bandwidth
    /\ max_data_size = test_frames[2]
    /\ {h.data_size : h \in published} = {test_frames[1], test_frames[2]}
    /\ Len(records) = 2
    /\ \A k \in 1..Len(records) : records[k].outcome = "ok"

----------------------------------------------------------------------------
(* The flag-based revision of the protocol: the first revision of          *)
(* host_writer.c and the guest reader of the same revision.  There is no   *)
(* handshake and no state word; the guest answers through guest_ack, and   *)
(* it recognises a new message by magic and a changed sequence.  The guest *)
(* never returns from monitor_latency.                                     *)

GUEST_ACK_NONE == 0
GUEST_ACK_RECEIVED == 1
GUEST_ACK_PROCESSED == 2
GUEST_ACK_ERROR == 3

FlagLatencyIterations == 1     \* iterations of test_latency (1000 in main)
FlagBandwidthIterations == 2   \* iterations per frame size (10 in main)
FlagFrames == 1                \* entries of test_frames a run goes through

\* offsetof(struct shared_data, buffer): seven words and the 32-byte hash
flag_header_size == 60

\* struct shared_data of the revision (padding left out), in the region
\* before the first run: a zero-filled file
FlagRegion ==
    [magic |-> 0, sequence |-> 0, guest_ack |-> 0, data_size |-> 0,
     signature_magic |-> 0, data_sha256 |-> ZeroHash, error_code |-> 0,
     buffer |-> <<"frame", 0>>]

\* one store of word or array `f'
FlagStore(f, v) == shm' = [shm EXCEPT ![f] = v]

\* generate_random_frame: fresh random data for each iteration
flag_random_frame(frame_idx, iter) == <<"frame", 10 * frame_idx + iter>>

FlagInit ==
    /\ shm = FlagRegion
    /\ host = [pc |-> "off", suite |-> "none", frame_idx |-> 0, i |-> 0,
               expected_hash |-> ZeroHash, error_code |-> 0, k |-> 1]
    /\ guest = [pc |-> "off", last_sequence |-> AllOnes, seq |-> 0,
                data_size |-> 0, calculated_hash |-> ZeroHash,
                expected_hash |-> ZeroHash,
                verified |-> FALSE]
    /\ records = <<>>
    /\ cfg = [revision |-> "guest_ack"]
    /\ stored = {}
    /\ published = {}
    /\ stalls = <<>>
    /\ faults = 0

\* a timed wait of the host ends by timeout: the guest was delayed beyond
\* the bound of the wait, or was started late
FlagTimeout(wait) ==
    /\ Len(stalls) < MaxStalls
    /\ stalls' = Append(stalls, wait)

\* the statements of a run of consecutive stores of the host, one store a
\* step: `stores' lists the fields and values in the order of the statements
FlagHostStores(pc, stores, next) ==
    /\ host.pc = pc
    /\ FlagStore(stores[host.k][1], stores[host.k][2])
    /\ host' = IF host.k < Len(stores)
               THEN [host EXCEPT !.k = host.k + 1]
               ELSE [host EXCEPT !.pc = next, !.k = 1]
    /\ UNCHANGED <<guest, records, cfg, stored, published, stalls, faults>>

FlagRow(outcome) ==
    [suite |-> host.suite, frame_idx |-> host.frame_idx, i |-> host.i,
     outcome |-> outcome]

\* main: "Press Enter to start tests...", test_latency(shm, 1000)
FlagPressEnter ==
    /\ host.pc = "off"
    /\ host' = [host EXCEPT !.pc = "lat_loop", !.suite = "latency", !.i = 0]
    /\ UNCHANGED <<shm, guest, records, cfg, stored, published, stalls, faults>>

\* for (int i = 0; i < iterations; i++)
FlagLatencyLoop ==
    /\ host.pc = "lat_loop"
    /\ host' = [host EXCEPT !.pc = IF host.i < FlagLatencyIterations
                                   THEN "lat_message" ELSE "lat_done"]
    /\ UNCHANGED <<shm, guest, records, cfg, stored, published, stalls, faults>>

\* "Reset guest acknowledgment" and "Write new message"
FlagLatencyStores ==
    << <<"guest_ack", GUEST_ACK_NONE>>, <<"error_code", 0>>,
       <<"sequence", host.i>>, <<"data_size", 0>>, <<"magic", MAGIC>> >>

FlagLatencyMessage ==
    FlagHostStores("lat_message", FlagLatencyStores, "lat_wait_received")

\* while (shm->guest_ack == GUEST_ACK_NONE): the guest answered
FlagLatencyWaitReceived ==
    /\ host.pc = "lat_wait_received"
    /\ shm.guest_ack # GUEST_ACK_NONE
    /\ HostGoto("lat_recheck")
    /\ UNCHANGED <<shm, guest, records, cfg, stored, published, stalls, faults>>

\* "Timeout waiting for guest to receive message", break
FlagLatencyWaitReceivedTimeout ==
    /\ host.pc = "lat_wait_received"
    /\ shm.guest_ack = GUEST_ACK_NONE
    /\ FlagTimeout("lat_received")
    /\ HostGoto("lat_recheck")
    /\ UNCHANGED <<shm, guest, records, cfg, stored, published, faults>>

\* if (shm->guest_ack == GUEST_ACK_NONE) continue;
FlagLatencyRecheck ==
    /\ host.pc = "lat_recheck"
    /\ IF shm.guest_ack = GUEST_ACK_NONE
       THEN host' = [host EXCEPT !.pc = "lat_loop", !.i = host.i + 1]
       ELSE HostGoto("lat_wait_processed")
    /\ UNCHANGED <<shm, guest, records, cfg, stored, published, stalls, faults>>

\* while (shm->guest_ack == GUEST_ACK_RECEIVED): the guest went on
FlagLatencyWaitProcessed ==
    /\ host.pc = "lat_wait_processed"
    /\ shm.guest_ack # GUEST_ACK_RECEIVED
    /\ HostGoto("lat_check")
    /\ UNCHANGED <<shm, guest, records, cfg, stored, published, stalls, faults>>

\* "Timeout waiting for guest to process message", break
FlagLatencyWaitProcessedTimeout ==
    /\ host.pc = "lat_wait_processed"
    /\ shm.guest_ack = GUEST_ACK_RECEIVED
    /\ FlagTimeout("lat_processed")
    /\ HostGoto("lat_check")
    /\ UNCHANGED <<shm, guest, records, cfg, stored, published, faults>>

\* if (shm->guest_ack == GUEST_ACK_PROCESSED) the latency is stored;
\* usleep(1000) and the next iteration
FlagLatencyCheck ==
    /\ host.pc = "lat_check"
    /\ records' = IF shm.guest_ack = GUEST_ACK_PROCESSED
                  THEN Append(records, FlagRow("ok")) ELSE records
    /\ host' = [host EXCEPT !.pc = "lat_loop", !.i = host.i + 1]
    /\ UNCHANGED <<shm, guest, cfg, stored, published, stalls, faults>>

\* main: "Press Enter to run bandwidth test...", test_bandwidth(shm, 10)
FlagPressEnterBandwidth ==
    /\ host.pc = "lat_done"
    /\ host' = [host EXCEPT !.pc = "bw_frame", !.suite = "bandwidth",
                            !.frame_idx = 1, !.i = 0]
    /\ UNCHANGED <<shm, guest, records, cfg, stored, published, stalls, faults>>

\* for (frame_idx = 0; test_frames[frame_idx].name != NULL; frame_idx++),
\* with the skip of a frame that does not fit; after the last frame main
\* unmaps the region and returns
FlagFrameBegin ==
    /\ host.pc = "bw_frame"
    /\ host' =
         IF host.frame_idx > FlagFrames \/ host.frame_idx > Len(test_frames)
         THEN [host EXCEPT !.pc = "done"]
         ELSE IF test_frames[host.frame_idx] > SHMEM_SIZE - flag_header_size
         THEN [host EXCEPT !.frame_idx = host.frame_idx + 1]
         ELSE [host EXCEPT !.pc = "bw_loop", !.i = 0]
    /\ UNCHANGED <<shm, guest, records, cfg, stored, published, stalls, faults>>

\* for (int iter = 0; iter < iterations; iter++), if (iter > 0) wait
FlagIterBegin ==
    /\ host.pc = "bw_loop"
    /\ host' =
         IF host.i >= FlagBandwidthIterations
         THEN [host EXCEPT !.pc = "bw_frame", !.frame_idx = host.frame_idx + 1]
         ELSE IF host.i > 0
         THEN [host EXCEPT !.pc = "bw_wait_ready"]
         ELSE [host EXCEPT !.pc = "bw_clear"]
    /\ UNCHANGED <<shm, guest, records, cfg, stored, published, stalls, faults>>

\* while (shm->guest_ack != GUEST_ACK_NONE && get_time_ns() < wait_timeout)
FlagWaitReady ==
    /\ host.pc = "bw_wait_ready"
    /\ shm.guest_ack = GUEST_ACK_NONE
    /\ HostGoto("bw_recheck_ready")
    /\ UNCHANGED <<shm, guest, records, cfg, stored, published, stalls, faults>>

FlagWaitReadyTimeout ==
    /\ host.pc = "bw_wait_ready"
    /\ shm.guest_ack # GUEST_ACK_NONE
    /\ FlagTimeout("bw_ready")
    /\ HostGoto("bw_recheck_ready")
    /\ UNCHANGED <<shm, guest, records, cfg, stored, published, faults>>

\* if (shm->guest_ack != GUEST_ACK_NONE): "TIMEOUT (guest not ready)",
\* a failed row, continue
FlagRecheckReady ==
    /\ host.pc = "bw_recheck_ready"
    /\ IF shm.guest_ack # GUEST_ACK_NONE
       THEN /\ records' = Append(records, FlagRow("timeout_not_ready"))
            /\ host' = [host EXCEPT !.pc = "bw_loop", !.i = host.i + 1]
       ELSE /\ HostGoto("bw_clear")
            /\ UNCHANGED records
    /\ UNCHANGED <<shm, guest, cfg, stored, published, stalls, faults>>

\* "Clear shared memory header before each iteration"
FlagClearStores ==
    << <<"magic", 0>>, <<"sequence", 0>>, <<"guest_ack", GUEST_ACK_NONE>>,
       <<"data_size", 0>>, <<"signature_magic", 0>>, <<"error_code", 0>>,
       <<"data_sha256", ZeroHash>> >>

FlagClearHeader ==
    FlagHostStores("bw_clear", FlagClearStores, "bw_generate")

\* generate_random_frame(data_ptr, width, height) writes into the region
FlagGenerateBegin ==
    /\ host.pc = "bw_generate"
    /\ FlagStore("buffer",
                 PartialCopy(shm.buffer,
                             flag_random_frame(host.frame_idx, host.i)))
    /\ HostGoto("bw_generating")
    /\ UNCHANGED <<guest, records, cfg, stored, published, stalls, faults>>

FlagGenerateEnd ==
    /\ host.pc = "bw_generating"
    /\ FlagStore("buffer", flag_random_frame(host.frame_idx, host.i))
    /\ HostGoto("bw_hash")
    /\ UNCHANGED <<guest, records, cfg, stored, published, stalls, faults>>

\* calculate_sha256(data_ptr, frame_size, expected_hash), flush_cache_range
FlagComputeHash ==
    /\ host.pc = "bw_hash"
    /\ host' = [host EXCEPT
                  !.pc = "bw_prepare",
                  !.expected_hash =
                      calculate_sha256(shm.buffer, test_frames[host.frame_idx])]
    /\ UNCHANGED <<shm, guest, records, cfg, stored, published, stalls, faults>>

\* "Prepare header with signature"
FlagPrepareStores ==
    << <<"guest_ack", GUEST_ACK_NONE>>,
       <<"sequence", BandwidthSequenceBase + host.i>>,
       <<"data_size", test_frames[host.frame_idx]>>,
       <<"signature_magic", MAGIC>>,
       <<"data_sha256", host.expected_hash>>,
       <<"magic", MAGIC>> >>

FlagPrepareHeader ==
    FlagHostStores("bw_prepare", FlagPrepareStores, "bw_wait_received")

\* while (shm->guest_ack == GUEST_ACK_NONE): the guest answered
FlagWaitReceived ==
    /\ host.pc = "bw_wait_received"
    /\ shm.guest_ack # GUEST_ACK_NONE
    /\ HostGoto("bw_recheck_received")
    /\ UNCHANGED <<shm, guest, records, cfg, stored, published, stalls, faults>>

\* "TIMEOUT (message not received)", break
FlagWaitReceivedTimeout ==
    /\ host.pc = "bw_wait_received"
    /\ shm.guest_ack = GUEST_ACK_NONE
    /\ FlagTimeout("bw_received")
    /\ HostGoto("bw_recheck_received")
    /\ UNCHANGED <<shm, guest, records, cfg, stored, published, faults>>

\* if (shm->guest_ack == GUEST_ACK_NONE): a failed row, continue
FlagRecheckReceived ==
    /\ host.pc = "bw_recheck_received"
    /\ IF shm.guest_ack = GUEST_ACK_NONE
       THEN /\ records' = Append(records, FlagRow("timeout_received"))
            /\ host' = [host EXCEPT !.pc = "bw_loop", !.i = host.i + 1]
       ELSE /\ HostGoto("bw_wait_processed")
            /\ UNCHANGED records
    /\ UNCHANGED <<shm, guest, cfg, stored, published, stalls, faults>>

\* while (shm->guest_ack == GUEST_ACK_RECEIVED): the guest went on
FlagWaitProcessed ==
    /\ host.pc = "bw_wait_processed"
    /\ shm.guest_ack # GUEST_ACK_RECEIVED
    /\ HostGoto("bw_check_processed")
    /\ UNCHANGED <<shm, guest, records, cfg, stored, published, stalls, faults>>

\* "TIMEOUT (processing)", break
FlagWaitProcessedTimeout ==
    /\ host.pc = "bw_wait_processed"
    /\ shm.guest_ack = GUEST_ACK_RECEIVED
    /\ FlagTimeout("bw_processed")
    /\ HostGoto("bw_check_processed")
    /\ UNCHANGED <<shm, guest, records, cfg, stored, published, faults>>

\* if (shm->guest_ack == GUEST_ACK_PROCESSED): the bandwidth is computed and
\* a row with data_verified = 1 is written
FlagCheckProcessed ==
    /\ host.pc = "bw_check_processed"
    /\ IF shm.guest_ack = GUEST_ACK_PROCESSED
       THEN /\ records' = Append(records, FlagRow("ok"))
            /\ HostGoto("bw_sleep")
       ELSE /\ HostGoto("bw_check_error")
            /\ UNCHANGED records
    /\ UNCHANGED <<shm, guest, cfg, stored, published, stalls, faults>>

\* else if (shm->guest_ack == GUEST_ACK_ERROR) ... else "TIMEOUT (processing)"
FlagCheckError ==
    /\ host.pc = "bw_check_error"
    /\ IF shm.guest_ack = GUEST_ACK_ERROR
       THEN /\ HostGoto("bw_read_error")
            /\ UNCHANGED records
       ELSE /\ records' = Append(records, FlagRow("timeout_processing"))
            /\ HostGoto("bw_sleep")
    /\ UNCHANGED <<shm, guest, cfg, stored, published, stalls, faults>>

\* "FAILED (guest reported error: %u)" with shm->error_code, a failed row
FlagReadErrorCode ==
    /\ host.pc = "bw_read_error"
    /\ host' = [host EXCEPT !.pc = "bw_sleep", !.error_code = shm.error_code]
    /\ records' = Append(records, FlagRow("error"))
    /\ UNCHANGED <<shm, guest, cfg, stored, published, stalls, faults>>

\* usleep(100000) and the next iteration
FlagIterEnd ==
    /\ host.pc = "bw_sleep"
    /\ host' = [host EXCEPT !.pc = "bw_loop", !.i = host.i + 1]
    /\ UNCHANGED <<shm, guest, records, cfg, stored, published, stalls, faults>>

FlagHostNext ==
    \/ FlagPressEnter
    \/ FlagLatencyLoop
    \/ FlagLatencyMessage
    \/ FlagLatencyWaitReceived
    \/ FlagLatencyWaitReceivedTimeout
    \/ FlagLatencyRecheck
    \/ FlagLatencyWaitProcessed
    \/ FlagLatencyWaitProcessedTimeout
    \/ FlagLatencyCheck
    \/ FlagPressEnterBandwidth
    \/ FlagFrameBegin
    \/ FlagIterBegin
    \/ FlagWaitReady
    \/ FlagWaitReadyTimeout
    \/ FlagRecheckReady
    \/ FlagClearHeader
    \/ FlagGenerateBegin
    \/ FlagGenerateEnd
    \/ FlagComputeHash
    \/ FlagPrepareHeader
    \/ FlagWaitReceived
    \/ FlagWaitReceivedTimeout
    \/ FlagRecheckReceived
    \/ FlagWaitProcessed
    \/ FlagWaitProcessedTimeout
    \/ FlagCheckProcessed
    \/ FlagCheckError
    \/ FlagReadErrorCode
    \/ FlagIterEnd

\* the guest program is started and enters monitor_latency
FlagGuestStart ==
    /\ guest.pc = "off"
    /\ GuestGoto("poll_magic")
    /\ UNCHANGED <<shm, host, records, cfg, stored, published, stalls, faults>>

\* if (shm->magic == MAGIC && ...), else usleep(10) and again
FlagGuestPollMagic ==
    /\ guest.pc = "poll_magic"
    /\ shm.magic = MAGIC
    /\ GuestGoto("poll_sequence")
    /\ UNCHANGED <<shm, host, records, cfg, stored, published, stalls, faults>>

\* ... && shm->sequence != last_sequence
FlagGuestPollSequence ==
    /\ guest.pc = "poll_sequence"
    /\ GuestGoto(IF shm.sequence # guest.last_sequence
                     THEN "read_sequence" ELSE "poll_magic")
    /\ UNCHANGED <<shm, host, records, cfg, stored, published, stalls, faults>>

\* uint32_t seq = shm->sequence;
FlagGuestReadSequence ==
    /\ guest.pc = "read_sequence"
    /\ guest' = [guest EXCEPT !.pc = "read_data_size", !.seq = shm.sequence,
                              !.verified = FALSE]
    /\ UNCHANGED <<shm, host, records, cfg, stored, published, stalls, faults>>

\* uint32_t data_size = shm->data_size;
FlagGuestReadDataSize ==
    /\ guest.pc = "read_data_size"
    /\ guest' = [guest EXCEPT !.pc = "ack_received", !.data_size = shm.data_size]
    /\ UNCHANGED <<shm, host, records, cfg, stored, published, stalls, faults>>

\* shm->guest_ack = GUEST_ACK_RECEIVED; last_sequence = seq;
FlagGuestAckReceived ==
    /\ guest.pc = "ack_received"
    /\ FlagStore("guest_ack", GUEST_ACK_RECEIVED)
    /\ guest' = [guest EXCEPT !.pc = "fast_path", !.last_sequence = guest.seq]
    /\ UNCHANGED <<host, records, cfg, stored, published, stalls, faults>>

\* "For latency tests, immediately mark as processed": if (seq != 0xFFFF)
FlagIsLatencyMessage(seq) == seq # BandwidthSequenceBase

\* if (seq != 0xFFFF) shm->guest_ack = GUEST_ACK_PROCESSED;
\* then "Check for bandwidth test marker (0xFFFF and above)"
FlagGuestFastPath ==
    /\ guest.pc = "fast_path"
    /\ IF FlagIsLatencyMessage(guest.seq)
       THEN FlagStore("guest_ack", GUEST_ACK_PROCESSED)
       ELSE UNCHANGED shm
    /\ GuestGoto(IF guest.seq >= BandwidthSequenceBase
                     THEN "check_signature" ELSE "poll_magic")
    /\ UNCHANGED <<host, records, cfg, stored, published, stalls, faults>>

\* if (shm->signature_magic != MAGIC) continue;
FlagGuestCheckSignature ==
    /\ guest.pc = "check_signature"
    /\ GuestGoto(IF shm.signature_magic # MAGIC
                     THEN "poll_magic" ELSE "sha256")
    /\ UNCHANGED <<shm, host, records, cfg, stored, published, stalls, faults>>

\* the cache-line read of the buffer and SHA256 over data_size bytes of it
FlagGuestSha256 ==
    /\ guest.pc = "sha256"
    /\ guest' = [guest EXCEPT
                   !.pc = "load_hash",
                   !.calculated_hash =
                       calculate_sha256(shm.buffer, guest.data_size)]
    /\ UNCHANGED <<shm, host, records, cfg, stored, published, stalls, faults>>

\* memcpy(expected_hash, shm->data_sha256, 32); hash_match = memcmp(...) == 0
FlagGuestLoadHash ==
    /\ guest.pc = "load_hash"
    /\ guest' = [guest EXCEPT !.pc = "ack_result",
                              !.expected_hash = shm.data_sha256,
                              !.verified = TRUE]
    /\ UNCHANGED <<shm, host, records, cfg, stored, published, stalls, faults>>

\* if (hash_match) shm->guest_ack = GUEST_ACK_PROCESSED;
FlagGuestAckProcessed ==
    /\ guest.pc = "ack_result"
    /\ guest.calculated_hash = guest.expected_hash
    /\ FlagStore("guest_ack", GUEST_ACK_PROCESSED)
    /\ GuestGoto("reset")
    /\ UNCHANGED <<host, records, cfg, stored, published, stalls, faults>>

\* else shm->error_code = 1;
FlagGuestStoreErrorCode ==
    /\ guest.pc = "ack_result"
    /\ guest.calculated_hash # guest.expected_hash
    /\ FlagStore("error_code", 1)
    /\ GuestGoto("ack_error")
    /\ UNCHANGED <<host, records, cfg, stored, published, stalls, faults>>

\* shm->guest_ack = GUEST_ACK_ERROR;
FlagGuestAckError ==
    /\ guest.pc = "ack_error"
    /\ FlagStore("guest_ack", GUEST_ACK_ERROR)
    /\ GuestGoto("reset")
    /\ UNCHANGED <<host, records, cfg, stored, published, stalls, faults>>

\* usleep(10000); shm->guest_ack = GUEST_ACK_NONE;
FlagGuestReset ==
    /\ guest.pc = "reset"
    /\ FlagStore("guest_ack", GUEST_ACK_NONE)
    /\ GuestGoto("poll_magic")
    /\ UNCHANGED <<host, records, cfg, stored, published, stalls, faults>>

FlagGuestNext ==
    \/ FlagGuestStart
    \/ FlagGuestPollMagic
    \/ FlagGuestPollSequence
    \/ FlagGuestReadSequence
    \/ FlagGuestReadDataSize
    \/ FlagGuestAckReceived
    \/ FlagGuestFastPath
    \/ FlagGuestCheckSignature
    \/ FlagGuestSha256
    \/ FlagGuestLoadHash
    \/ FlagGuestAckProcessed
    \/ FlagGuestStoreErrorCode
    \/ FlagGuestAckError
    \/ FlagGuestReset

FlagNext == FlagHostNext \/ FlagGuestNext

FlagSpec == FlagInit /\ [][FlagNext]_vars

\* the guest stores PROCESSED or ERROR into guest_ack (the host stores
\* only NONE there)
FlagSignalsResult ==
    /\ shm'.guest_ack # shm.guest_ack
    /\ shm'.guest_ack \in {GUEST_ACK_PROCESSED, GUEST_ACK_ERROR}

\* C31: in the flag-based revision the guest sets guest_ack to PROCESSED or
\* ERROR for a bandwidth message (sequence >= 0xFFFF) only after its SHA-256
\* verification of that message has completed.
C31_ResultAfterVerification ==
    [][(FlagSignalsResult /\ guest.seq >= BandwidthSequenceBase)
         => guest.verified]_vars

\* C32: before the Writer's shutdown the Reader never polls in ACKNOWLEDGED
\* for writer_state = READY while the Writer, with writer_state = SENDING,
\* polls for reader_state = PROCESSING.
C32_NoCrossedWaits ==
    ~ /\ guest.pc = "wait_host_ready"
      /\ shm.guest_state = GUEST_STATE_ACKNOWLEDGED
      /\ host.pc = "iter_wait_processing"
      /\ shm.host_state = HOST_STATE_SENDING
      /\ shm.test_complete = 0

\* the guest has handled the message of the host's current iteration and has
\* acknowledged it, and the host has not yet read a guest state for it; no
\* earlier iteration has failed
HandledBeforePoll ==
    /\ host.pc = "iter_wait_processing"
    /\ guest.pc = "wait_host_ready"
    /\ shm.guest_state = GUEST_STATE_ACKNOWLEDGED
    /\ guest.seen.host_state = HOST_STATE_SENDING
    /\ LoadedHeader = CurrentHeader
    /\ \A k \in 1..Len(records) : records[k].outcome = "ok"

\* C33: when the guest has observed the published SENDING, entered PROCESSING
\* and reached ACKNOWLEDGED before the host's next poll of guest_state, the
\* host does not report that the guest did not start processing: the row it
\* writes for the iteration is made from what the guest reported.
C33_HandledMessageRecorded ==
    [][(HandledBeforePoll /\ records' # records)
          => (Reports("ok") \/ Reports("error"))]_vars

\* the host stores SENDING into host_state
StoresSending ==
    /\ shm.host_state # HOST_STATE_SENDING
    /\ shm'.host_state = HOST_STATE_SENDING

\* C34 as stated: the host stores host_state = SENDING for a new message only
\* when guest_state = READY.
C34_SendingOnlyWhenReaderReady ==
    [][StoresSending => shm.guest_state = GUEST_STATE_READY]_vars

\* C34 amended: the host stores host_state = SENDING for a new message only
\* after the wait for guest_state = READY that follows its last store of
\* READY has ended, by a read of READY or by timeout.
C34_SendingOnlyAfterWaitForReady ==
    [][StoresSending => host.guest_ready \in {"ready", "timeout"}]_vars

\* C34 witness: the host's wait for the guest at the end of
\* init_shared_memory has timed out and the host has published its first
\* message over a guest_state that is not READY.
C34_Witness ==
    /\ host.pc = "iter_wait_processing"
    /\ shm.host_state = HOST_STATE_SENDING
    /\ shm.guest_state # GUEST_STATE_READY
    /\ stalls = <<"init_wait_guest">>
    /\ records = <<>>

\* the positions of the host at a store into sequence, data_size, data_sha256
\* or the payload: the zeroing of init_shared_memory and the preparation of a
\* message
MessageStorePcs ==
    {"init_zero_header", "iter_store_sequence", "iter_store_data_size",
     "iter_store_hash", "iter_copy_begin", "iter_copy_end"}

\* C35: the host never stores into sequence, data_size, data_sha256 or the
\* payload while guest_state = PROCESSING, so that the guest's reads of a
\* message never overlap with stores of the host to that message.
C35_NoMessageStoreWhileProcessing ==
    [][(host.pc \in MessageStorePcs /\ host' # host)
          => shm.guest_state # GUEST_STATE_PROCESSING]_vars

\* the guest enters PROCESSING for a message
EntersProcessing ==
    /\ guest.pc = "set_processing"
    /\ guest' # guest

\* C36: the guest processes each published message at most once: it never
\* enters PROCESSING more often than the host has stored SENDING, and every
\* store of SENDING replaces the host's READY, so that between two
\* consecutive entries into PROCESSING the host has stored READY and then
\* SENDING again.
C36_AtMostOncePerPublication ==
    [][/\ EntersProcessing => guest.message_count <= host.publications
       /\ StoresSending => shm.host_state = HOST_STATE_READY]_vars

\* C36 witness: the guest has entered PROCESSING for the second message of a
\* run.
C36_Witness ==
    /\ shm.guest_state = GUEST_STATE_PROCESSING
    /\ guest.pc = "read_sequence"
    /\ guest.message_count = 2
    /\ host.publications = 2

\* C37: the host always terminates, whatever the guest does (it never
\* starts, stops responding at any point, or exits early): no wait of the host
\* depends on a step of the guest, every suite ends after its configured
\* number of iterations, one row each, and the host then stores
\* host_state = COMPLETED and test_complete = 1.
C37_WriterTerminates ==
    /\ host.pc = "off" ~> host.pc = "done"
    /\ []((host.pc \in DOMAIN HostWaits /\ guest.pc \in {"exited", "stopped"})
             => ENABLED HostNext)
    /\ [](host.pc = "done" =>
            /\ Len(records) = TotalIterations
            /\ shm.host_state = HOST_STATE_COMPLETED
            /\ shm.test_complete = 1)

\* C37 witness: the host has finished a run of several iterations in which
\* the guest stopped in the middle of a message.
C37_Witness ==
    /\ host.pc = "done"
    /\ guest.pc = "stopped"
    /\ shm.guest_state = GUEST_STATE_PROCESSING
    /\ Len(records) > 1

\* C38: whenever host_state, as stored by the host of the current run, is
\* READY, SENDING or COMPLETED, magic = MAGIC: the host stores READY only
\* with magic = MAGIC and the zeroed sequence, data_size, error_code,
\* test_complete, hash and timings in place, and it stores into magic nowhere
\* but in init_shared_memory.
C38_MagicWhilePublished ==
    /\ [](host.pc \notin InitialisingPcs =>
            /\ shm.host_state \in {HOST_STATE_READY, HOST_STATE_SENDING,
                                   HOST_STATE_COMPLETED}
            /\ shm.magic = MAGIC)
    /\ [][/\ (host.pc = "init_set_ready" /\ host' # host) => FullyInitialised'
          /\ shm'.magic # shm.magic
                => host.pc \in {"init_clear_magic", "init_set_magic"}]_vars

\* C38 witness: over a region that was filled with 0xFF, the host has
\* initialised the header, sent its messages and stored COMPLETED, with magic
\* still in place.
C38_Witness ==
    /\ cfg.region = "all_ones"
    /\ host.pc = "done"
    /\ shm.host_state = HOST_STATE_COMPLETED
    /\ shm.magic = MAGIC
    /\ Len(records) > 0

====
